---- MODULE Spec2Model ----
(***************************************************************************)
(* Adaptive crawl orchestration engine of the Reddit platform scraper:     *)
(* the rate controller (core/rate_limiter.py), the dedup filter, the       *)
(* multi-strategy orchestrator (enhanced_scraper.py) and the concurrent    *)
(* fetch stage (scraper.py).                                               *)
(*                                                                         *)
(* Delays are fixed-point numbers: one unit is 1/Scale second, and a       *)
(* product with a decimal factor is truncated to a whole unit.  Wall-clock *)
(* time is counted in whole seconds.                                       *)
(***************************************************************************)
EXTENDS Integers, Sequences, FiniteSets, TLC

VARIABLES
    \* ---- SmartRateController fields (rate_limiter.py:14-26)
    current_delay, consecutive_429s, success_streak, last_429_time,
    total_requests, successful_requests,
    cooldown_mode, cooldown_start_time, session_refresh_needed,
    \* wall clock read by time.time(), and the value returned by the
    \* get_delay call that was the last step (NoValue otherwise)
    now, delay_returned,
    \* ---- dedup filter: the candidate list handed to the filter, the ids
    \* the store holds (LocalDataManager.existing_ids), the batch size, the
    \* list returned and which filter produced it
    post_urls_with_ids, existing_ids, batch_size, new_posts, dedup_pc,
    \* ---- get_recent_posts_multi_strategy: its arguments, its locals, the
    \* locals of the strategy being executed (new_urls, the list last
    \* fetched, the position in the strategy's own loop), the position in
    \* the orchestrator and the list it returned
    max_posts, strategy_type, all_post_urls, strategy_results,
    consecutive_low_gains, strategy_idx, remaining,
    new_urls, fetched, sub_idx, orch_pc, orch_result,
    \* the lists a listing, search or pull request of the subreddit can
    \* answer with
    remote_lists,
    \* ---- fetch stage of RedditScraper.scrape: len(post_urls), the max_posts
    \* argument, the state of each future, the counters of the scraper, the
    \* locals completed_count and scraped_posts, the position of the main
    \* thread, and for each pool thread inside "self.error_count += 1" the
    \* value of error_count it has read and not yet written back
    num_posts, scrape_max_posts, future, scraped_count, error_count,
    completed_count, scraped_posts, scrape_pc, loaded,
    \* ---- EnhancedUofTScraper.run_enhanced_scraping: the max_posts argument,
    \* len(post_urls) after the final dedup, the loop index i, the
    \* scraper's
    \* scraped_count, the locals scraped_posts and posts_to_save (post ids),
    \* the candidates of the backup strategy still to be processed, the
    \* number of fetches that failed and the position in the function
    run_max_posts, run_num_posts, post_idx, run_scraped_count,
    run_scraped_posts,
    posts_to_save, backup_urls, failed_fetches, run_pc,
    \* ---- PaginatedStrategy.fetch_posts: the max_posts argument, its locals
    \* (after is TRUE when a cursor is held), the number of requests sent,
    \* the position in the function, and the page requests that have failed
    \* in a row up to now
    fetch_max_posts, post_urls, after, page, consecutive_timeouts,
    consecutive_errors, requests, page_pc, failed_pages,
    \* ---- RedditPostScraper.parse_comment_tree: the comment listing handed
    \* to it, the list it returned, the hidden counts it printed and the
    \* position of the call
    comment_data, comments, reported, parse_pc,
    \* ---- search_posts_by_keywords: the max_posts argument, the index i
    \* of the keyword in hand, the locals post_urls and keyword_new (of the
    \* keyword searched last) and the position in the function
    search_max_posts, keyword_idx, search_urls, keyword_new, search_pc,
    \* ---- per-item fetch: the function that fetches (scrape_post_with_comments
    \* or fetch_json under process_post), the number of the item in hand,
    \* the answers its requests received, what the caller got for it, the
    \* error_count of the scraper now and when the item was started, and
    \* the position in the fetch
    item_path, item_idx, item_answers, item_result, item_error_count,
    errors_at_start, item_pc,
    \* ---- save_to_database: the max_retries argument, what each attempt
    \* ended in, the seconds slept after each failed attempt, the value
    \* returned and the position in the function
    save_max_retries, save_attempts, save_waits, save_returned, save_pc,
    \* ---- get_all_posts_paginated with get_posts_backup: the max_posts
    \* argument, the locals post_urls, after (TRUE when a cursor is held) and
    \* page, the page requests sent, the number of items the listing has
    \* handed out, the well-formed ones among them, the page in hand, whether
    \* a 403 was met, the backup URL in turn, the list returned and the
    \* position in the function
    list_max_posts, list_post_urls, list_after, list_page, list_requests,
    list_offered, list_received, list_data, list_blocked, list_backup_idx,
    list_returned, list_pc,
    \* ---- LocalDataManager.save_post called from several threads: the set
    \* existing_ids of the store, the number of rows of posts.csv for each
    \* id, the call each thread is in (its post id and position), the number
    \* of calls each thread has made and the number of calls that returned
    \* True for each id
    stored_ids, csv_rows, store_call, calls_made, returned_true

rateVars == <<current_delay, consecutive_429s, success_streak, last_429_time,
              total_requests, successful_requests,
              cooldown_mode, cooldown_start_time, session_refresh_needed>>

clockVars == <<now, delay_returned>>

dedupVars == <<post_urls_with_ids, existing_ids, batch_size, new_posts,
               dedup_pc>>

orchVars == <<max_posts, strategy_type, all_post_urls, strategy_results,
              consecutive_low_gains, strategy_idx, remaining,
              new_urls, fetched, sub_idx, orch_pc, orch_result,
              remote_lists>>

fetchVars == <<num_posts, scrape_max_posts, future, scraped_count,
               error_count, completed_count, scraped_posts,
               scrape_pc, loaded>>

runVars == <<run_max_posts, run_num_posts, post_idx, run_scraped_count,
             run_scraped_posts, posts_to_save, backup_urls, failed_fetches,
             run_pc>>

pageVars == <<fetch_max_posts, post_urls, after, page, consecutive_timeouts,
              consecutive_errors, requests, page_pc,
              failed_pages>>

\* the variables of the components that follow the fetch stage
parseVars == <<comment_data, comments, reported, parse_pc>>

searchVars == <<search_max_posts, keyword_idx, search_urls, keyword_new,
                search_pc>>

\* the variables of the components modelled after comment parsing
itemVars == <<item_path, item_idx, item_answers, item_result,
              item_error_count, errors_at_start, item_pc>>

saveVars == <<save_max_retries, save_attempts, save_waits, save_returned,
              save_pc>>

listVars == <<list_max_posts, list_post_urls, list_after, list_page,
              list_requests, list_offered, list_received, list_data,
              list_blocked, list_backup_idx, list_returned, list_pc>>

storeVars == <<stored_ids, csv_rows, store_call, calls_made, returned_true>>

\* the variables of the components modelled last
lastVars == <<saveVars, listVars, storeVars>>

moreVars == <<searchVars, itemVars, lastVars>>

restVars == <<runVars, pageVars, parseVars, moreVars>>

vars == <<rateVars, clockVars, dedupVars, orchVars, fetchVars, restVars>>

----------------------------------------------------------------------------
\* Bounds of the model

\* record_success calls in one behaviour
MaxSuccess == 31
\* record_429_error plus record_other_error calls in one behaviour
MaxErrors == 5
\* clock advances in one behaviour
MaxTicks == 2
\* post ids 1..MaxId the remote and the store know
MaxId == 3
\* length of a candidate list handed to the dedup filter
MaxLen == 3
\* largest batch_size the dedup filter is called with
MaxBatch == 3
\* post ids 1..MaxSmallId of the short listings the remote serves
MaxSmallId == 1
\* length of a short listing
MaxFetch == 2
\* candidates handed to the fetch stage
MaxCandidates == 6
\* largest max_posts the fetch stage is run with
MaxTarget == 1
\* candidates and target of a fetch run followed step by step
MaxPosts == 3
MaxGoal == 2
\* run_enhanced_scraping: largest small target, how far a large target lies
\* above the limit of the small ones, candidates beyond the target, fetches
\* that may fail, candidates a backup strategy may find
MaxImmediate == 2
MaxAboveLimit == 1
MaxSurplus == 1
MaxFailed == 1
MaxBackup == 1
\* PaginatedStrategy.fetch_posts: requests one call may send, largest small
\* target, largest short page
MaxRequests == 7
MaxFetchTarget == 2
MaxShortPage == 2

----------------------------------------------------------------------------
\* Fixed-point representation of the float delays

Scale == 10 * 1000

\* seconds the clock advances in one Tick
TickStep == 30

\* time.time() at construction: far more than RecentWindow after the epoch
StartTime == 1000

NoValue == 0 - 1

Min(a, b) == IF a <= b THEN a ELSE b
Max(a, b) == IF a >= b THEN a ELSE b

----------------------------------------------------------------------------
\* Program constants of SmartRateController

base_delay == (25 * Scale) \div 10
MinDelay == (15 * Scale) \div 10
MaxDelay == 30 * Scale
RecoveryStreak == 20
CooldownExitStreak == 3
CooldownTrigger == 2
FastBackoffLimit == 3
SkipThreshold == 5
RecentWindow == 60

----------------------------------------------------------------------------
\* SmartRateController

RateInit ==
    /\ current_delay = base_delay
    /\ consecutive_429s = 0
    /\ success_streak = 0
    /\ last_429_time = 0
    /\ total_requests = 0
    /\ successful_requests = 0
    /\ cooldown_mode = FALSE
    /\ cooldown_start_time = 0
    /\ session_refresh_needed = FALSE
    /\ now = StartTime
    /\ delay_returned = NoValue

\* current_delay *= 0.95 when the streak is long and the delay above the floor
RecoveredDelay(streak, delay) ==
    IF streak > RecoveryStreak /\ delay > MinDelay
    THEN (delay * 95) \div 100
    ELSE delay

\* exponential backoff, then min(30.0, current_delay)
BackoffDelay(failures, delay) ==
    Min(MaxDelay, IF failures <= FastBackoffLimit
                  THEN delay * 2
                  ELSE (delay * 3) \div 2)

\* current_delay *= 1.1
OtherErrorDelay(delay) == (delay * 11) \div 10

\* a controller that leaves cooldown one success too early
ExitsCooldownEarly(cooldown, streak) == cooldown /\ streak >= CooldownExitStreak - 1

\* the condition under which record_success calls exit_cooldown_mode
ExitsCooldown(cooldown, streak) == cooldown /\ streak >= CooldownExitStreak

\* a controller that needs a third consecutive 429 to enter cooldown
EntersCooldownLate(failures) == failures >= CooldownTrigger + 1

\* a controller that enters cooldown on the first 429
EntersCooldownAtOnce(failures) == failures >= CooldownTrigger - 1

\* the condition under which record_429_error calls enter_cooldown_mode
EntersCooldown(failures) == failures >= CooldownTrigger

record_success ==
    /\ successful_requests < MaxSuccess
    /\ total_requests' = total_requests + 1
    /\ successful_requests' = successful_requests + 1
    /\ success_streak' = success_streak + 1
    /\ consecutive_429s' = 0
    \* exit_cooldown_mode
    /\ IF ExitsCooldown(cooldown_mode, success_streak + 1)
       THEN /\ cooldown_mode' = FALSE
            /\ session_refresh_needed' = FALSE
       ELSE UNCHANGED <<cooldown_mode, session_refresh_needed>>
    /\ current_delay' = RecoveredDelay(success_streak + 1, current_delay)
    /\ delay_returned' = NoValue
    /\ UNCHANGED <<last_429_time, cooldown_start_time, now>>
    /\ UNCHANGED <<dedupVars, orchVars, fetchVars, restVars>>

\* a record_429_error whose enter_cooldown_mode does not test cooldown_mode
record_429_error_restamping ==
    /\ total_requests - successful_requests < MaxErrors
    /\ total_requests' = total_requests + 1
    /\ consecutive_429s' = consecutive_429s + 1
    /\ success_streak' = 0
    /\ last_429_time' = now
    /\ current_delay' = BackoffDelay(consecutive_429s + 1, current_delay)
    /\ IF EntersCooldown(consecutive_429s + 1)
       THEN /\ cooldown_mode' = TRUE
            /\ cooldown_start_time' = now
            /\ session_refresh_needed' = TRUE
       ELSE UNCHANGED <<cooldown_mode, cooldown_start_time,
                        session_refresh_needed>>
    /\ delay_returned' = NoValue
    /\ UNCHANGED <<successful_requests, now>>
    /\ UNCHANGED <<dedupVars, orchVars, fetchVars, restVars>>

record_429_error ==
    /\ total_requests - successful_requests < MaxErrors
    /\ total_requests' = total_requests + 1
    /\ consecutive_429s' = consecutive_429s + 1
    /\ success_streak' = 0
    /\ last_429_time' = now
    /\ current_delay' = BackoffDelay(consecutive_429s + 1, current_delay)
    \* enter_cooldown_mode
    /\ IF EntersCooldown(consecutive_429s + 1) /\ ~cooldown_mode
       THEN /\ cooldown_mode' = TRUE
            /\ cooldown_start_time' = now
            /\ session_refresh_needed' = TRUE
       ELSE UNCHANGED <<cooldown_mode, cooldown_start_time,
                        session_refresh_needed>>
    /\ delay_returned' = NoValue
    /\ UNCHANGED <<successful_requests, now>>
    /\ UNCHANGED <<dedupVars, orchVars, fetchVars, restVars>>

\* a record_other_error that counts the error as a rate-limit failure
record_other_error_as_failure ==
    /\ total_requests - successful_requests < MaxErrors
    /\ total_requests' = total_requests + 1
    /\ consecutive_429s' = consecutive_429s + 1
    /\ success_streak' = 0
    /\ current_delay' = OtherErrorDelay(current_delay)
    /\ delay_returned' = NoValue
    /\ UNCHANGED <<last_429_time, successful_requests,
                   cooldown_mode, cooldown_start_time,
                   session_refresh_needed, now>>
    /\ UNCHANGED <<dedupVars, orchVars, fetchVars, restVars>>

record_other_error ==
    /\ total_requests - successful_requests < MaxErrors
    /\ total_requests' = total_requests + 1
    /\ success_streak' = 0
    /\ current_delay' = OtherErrorDelay(current_delay)
    /\ delay_returned' = NoValue
    /\ UNCHANGED <<consecutive_429s, last_429_time, successful_requests,
                   cooldown_mode, cooldown_start_time,
                   session_refresh_needed, now>>
    /\ UNCHANGED <<dedupVars, orchVars, fetchVars, restVars>>

\* a get_delay that forgets the extra delay after a recent 429
DelayAtNoPenalty(t, last429, delay) == Max(MinDelay, delay)

\* the value get_delay returns at time t
DelayAt(t, last429, delay) ==
    IF t - last429 < RecentWindow
    THEN delay * 2
    ELSE Max(MinDelay, delay)

get_delay ==
    /\ delay_returned = NoValue
    /\ delay_returned' = DelayAt(now, last_429_time, current_delay)
    /\ UNCHANGED rateVars
    /\ UNCHANGED now
    /\ UNCHANGED <<dedupVars, orchVars, fetchVars, restVars>>

should_skip_strategy == consecutive_429s >= SkipThreshold

needs_session_refresh == session_refresh_needed

mark_session_refreshed ==
    /\ session_refresh_needed
    /\ session_refresh_needed' = FALSE
    /\ delay_returned' = NoValue
    /\ UNCHANGED <<current_delay, consecutive_429s, success_streak,
                   last_429_time, total_requests, successful_requests,
                   cooldown_mode, cooldown_start_time, now>>
    /\ UNCHANGED <<dedupVars, orchVars, fetchVars, restVars>>

\* time passes between two calls
Tick ==
    /\ now < StartTime + MaxTicks * TickStep
    /\ now' = now + TickStep
    /\ delay_returned' = NoValue
    /\ UNCHANGED rateVars
    /\ UNCHANGED <<dedupVars, orchVars, fetchVars, restVars>>

----------------------------------------------------------------------------
\* Dedup filter (enhanced_scraper.py filter_new_posts_batch, scraper.py
\* _filter_existing_posts) over the store of local_storage.py.
\* A candidate is the pair <<post_url, post_id>>.

Ids == 1..MaxId
Urls == {"a", "b"}
Candidates == Urls \X Ids

RECURSIVE SeqsUpTo(_, _)
SeqsUpTo(S, n) ==
    IF n = 0 THEN {<<>>}
    ELSE LET shorter == SeqsUpTo(S, n - 1)
         IN shorter \cup {Append(q, x) : q \in {r \in shorter : Len(r) = n - 1},
                                       x \in S}

\* values of the dedup variables while another component is exercised
DedupIdle ==
    /\ post_urls_with_ids = <<>>
    /\ existing_ids = {}
    /\ batch_size = 1
    /\ new_posts = <<>>
    /\ dedup_pc = "idle"

DedupInit ==
    /\ post_urls_with_ids \in SeqsUpTo(Candidates, MaxLen)
    /\ existing_ids \in SUBSET Ids
    /\ batch_size = 1
    /\ new_posts = <<>>
    /\ dedup_pc = "input"

\* a store that reports nothing as existing
check_post_exists_never(store, post_id) == FALSE

\* LocalDataManager.check_post_exists
check_post_exists(store, post_id) == post_id \in store

\* post_ids = [post_id for _, post_id in batch]
PostIds(batch) == [k \in 1..Len(batch) |-> batch[k][2]]

\* EnhancedUofTScraper.check_posts_exist_batch
check_posts_exist_batch(store, post_ids) ==
    IF post_ids = <<>>
    THEN {}
    ELSE {post_ids[k] : k \in {j \in 1..Len(post_ids) :
                                 check_post_exists(store, post_ids[j])}}

\* the candidates of one batch whose id is not among found, in batch order
RECURSIVE KeepNew(_, _)
KeepNew(batch, found) ==
    IF batch = <<>> THEN <<>>
    ELSE IF Head(batch)[2] \notin found
         THEN <<Head(batch)>> \o KeepNew(Tail(batch), found)
         ELSE KeepNew(Tail(batch), found)

\* a loop whose batches of more than one candidate lose their last one
RECURSIVE FilterFromShortBatch(_, _, _, _)
FilterFromShortBatch(posts, i, size, store) ==
    IF i >= Len(posts) THEN <<>>
    ELSE LET last == Min(i + Max(size - 1, 1), Len(posts))
             batch == SubSeq(posts, i + 1, last)
             found == check_posts_exist_batch(store, PostIds(batch))
         IN KeepNew(batch, found)
                \o FilterFromShortBatch(posts, i + size, size, store)

\* for i in range(0, len(posts), size): batch = posts[i:i + size] ...
RECURSIVE FilterFrom(_, _, _, _)
FilterFrom(posts, i, size, store) ==
    IF i >= Len(posts) THEN <<>>
    ELSE LET batch == SubSeq(posts, i + 1, Min(i + size, Len(posts)))
             found == check_posts_exist_batch(store, PostIds(batch))
         IN KeepNew(batch, found) \o FilterFrom(posts, i + size, size, store)

FilterNewPostsBatch(posts, size, store) ==
    IF posts = <<>> THEN <<>> ELSE FilterFrom(posts, 0, size, store)

\* the loop of RedditScraper._filter_existing_posts, which inlines the
\* existence check of each batch
RECURSIVE FilterExistingFrom(_, _, _, _)
FilterExistingFrom(posts, i, size, store) ==
    IF i >= Len(posts) THEN <<>>
    ELSE LET batch == SubSeq(posts, i + 1, Min(i + size, Len(posts)))
             ids == PostIds(batch)
             found == {ids[k] : k \in {j \in 1..Len(ids) :
                                         check_post_exists(store, ids[j])}}
         IN KeepNew(batch, found)
                \o FilterExistingFrom(posts, i + size, size, store)

FilterExistingPosts(posts, size, store) == FilterExistingFrom(posts, 0, size, store)

filter_new_posts_batch ==
    /\ dedup_pc = "input"
    /\ \E size \in 1..MaxBatch :
        /\ batch_size' = size
        /\ new_posts' = FilterNewPostsBatch(post_urls_with_ids, size,
                                            existing_ids)
    /\ dedup_pc' = "filter_new_posts_batch"
    /\ UNCHANGED <<post_urls_with_ids, existing_ids>>
    /\ UNCHANGED <<rateVars, clockVars, orchVars, fetchVars, restVars>>

filter_existing_posts ==
    /\ dedup_pc = "input"
    /\ \E size \in 1..MaxBatch :
        /\ batch_size' = size
        /\ new_posts' = FilterExistingPosts(post_urls_with_ids, size,
                                            existing_ids)
    /\ dedup_pc' = "_filter_existing_posts"
    /\ UNCHANGED <<post_urls_with_ids, existing_ids>>
    /\ UNCHANGED <<rateVars, clockVars, orchVars, fetchVars, restVars>>

NextDedup ==
    \/ filter_new_posts_batch
    \/ filter_existing_posts

----------------------------------------------------------------------------
\* Strategy orchestrator (enhanced_scraper.py get_recent_posts_multi_strategy
\* and the _execute_*_strategy methods).  What a listing, search or API
\* query returns is the remote's choice: a short listing over the ids
\* 1..MaxSmallId (repeated ids allowed) or one of three long listings.

Url(id) == "a"

Cand(id) == <<Url(id), id>>

\* the listing of the ids first..last, in increasing order
Listing(first, last) == [k \in 1..(last - first + 1) |-> Cand(first + k - 1)]

LongListingA == Listing(MaxSmallId + 1, MaxSmallId + 50)
LongListingB == Listing(MaxSmallId + 51, MaxSmallId + 90)
LongListingC == Listing(MaxSmallId + 91, MaxSmallId + 140)

RemoteLists ==
    SeqsUpTo({Cand(id) : id \in 1..MaxSmallId}, MaxFetch)
        \cup {LongListingA, LongListingB}

\* the same subreddit with one more page of posts
LongRemoteLists == RemoteLists \cup {LongListingC}

\* targets the orchestrator is called with
Targets == {1, 20}

Profiles == {"super_recent", "super_popular", "super_search", "super_full"}

Strategy(name, params) == [name |-> name, params |-> params]

\* the ordered strategies of a profile
Strategies(profile) ==
    CASE profile = "super_recent" ->
            << Strategy("deep_history", <<>>),
               Strategy("time_range_top", <<"day", "week", "month", "year">>),
               Strategy("new_sort", <<"new", "rising">>),
               Strategy("keyword_search", <<>>) >>
      [] profile = "super_popular" ->
            << Strategy("hot_sort", <<"hot", "best">>),
               Strategy("time_range_top", <<"all", "year", "month">>),
               Strategy("deep_history", <<>>),
               Strategy("keyword_search", <<>>) >>
      [] profile = "super_search" ->
            << Strategy("keyword_search", <<>>),
               Strategy("time_range_top", <<"month", "year", "all">>),
               Strategy("hot_sort", <<"hot", "new">>),
               Strategy("deep_history", <<>>) >>
      [] OTHER ->
            << Strategy("praw_enhanced", <<>>),
               Strategy("time_range_top",
                        <<"day", "week", "month", "year", "all">>),
               Strategy("multi_sort", <<"hot", "new", "rising", "best">>),
               Strategy("deep_history", <<>>),
               Strategy("advanced_search", <<>>),
               Strategy("keyword_search", <<>>) >>

ListingStrategies == {"time_range_top", "multi_sort", "new_sort", "hot_sort"}
SingleCallStrategies == {"keyword_search", "deep_history", "advanced_search"}

CurrentStrategy == Strategies(strategy_type)[strategy_idx]

\* the first n elements of a list: posts[:n]
Take(posts, n) == SubSeq(posts, 1, Min(n, Len(posts)))

IdsOf(posts) == {posts[k][2] : k \in 1..Len(posts)}

\* a merge that appends what was fetched as it is
UncollectedKeepAll(posts, collected) == posts

\* the candidates of posts whose id is neither in collected nor earlier in
\* posts, in order: the loop "if post_id not in collected_ids: append, add"
Uncollected(posts, collected) ==
    LET indexed == [k \in 1..Len(posts) |-> <<k, posts[k]>>]
        IsNew(e) == /\ e[2][2] \notin collected
                    /\ \A j \in 1..(e[1] - 1) : posts[j][2] # e[2][2]
        kept == SelectSeq(indexed, IsNew)
    IN [k \in 1..Len(kept) |-> kept[k][2]]

\* a volume exit that is content with one strategy
VolumeExitAfterOne(count, target, index) == count >= target * 3 /\ index >= 1

\* a volume exit that waits for five times the target
VolumeExitLate(count, target, index) == count >= target * 5 /\ index >= 2

\* len(all_post_urls) >= max_posts * 3 and strategy_index >= 2, with the
\* 0-based index of the strategy about to run
VolumeExit(count, target, index) == count >= target * 3 /\ index >= 2

\* strategy_gain < 5
LowGain(gain) == gain < 5

\* a saturation check that is content with three strategies
SaturationSuspectedAfterThree(low_gains, results) ==
    low_gains >= 3 /\ Len(results) >= 3

\* consecutive_low_gains >= 3 and len(strategy_results) >= 4
SaturationSuspected(low_gains, results) == low_gains >= 3 /\ Len(results) >= 4

\* a saturation check without the volume floor
EnoughCandidatesAlways(count, target) == TRUE

\* len(all_post_urls) >= max_posts * 2
EnoughCandidates(count, target) == count >= target * 2

\* a return that never truncates
ReturnedWhole(posts, target) == posts

\* the list returned: all_post_urls[:max_posts * 2] when it is longer
Returned(posts, target) ==
    IF Len(posts) > target * 2 THEN Take(posts, target * 2) ELSE posts

\* values of the orchestrator variables while another component is exercised
OrchIdle ==
    /\ max_posts = 1
    /\ strategy_type = "super_full"
    /\ all_post_urls = <<>>
    /\ strategy_results = <<>>
    /\ consecutive_low_gains = 0
    /\ strategy_idx = 1
    /\ remaining = 0
    /\ new_urls = <<>>
    /\ fetched = <<>>
    /\ sub_idx = 1
    /\ orch_pc = "idle"
    /\ orch_result = <<>>
    /\ remote_lists = {}

OrchStart(lists) ==
    /\ remote_lists = lists
    /\ max_posts \in Targets
    /\ strategy_type \in Profiles
    /\ all_post_urls = <<>>
    /\ strategy_results = <<>>
    /\ consecutive_low_gains = 0
    /\ strategy_idx = 1
    /\ remaining = 0
    /\ new_urls = <<>>
    /\ fetched = <<>>
    /\ sub_idx = 1
    /\ orch_pc = "loop"
    /\ orch_result = <<>>

OrchInit == OrchStart(RemoteLists)

orchFrame ==
    UNCHANGED <<rateVars, clockVars, dedupVars, fetchVars, restVars>>

\* the for loop has run every strategy of the profile
orch_loop_end ==
    /\ orch_pc = "loop"
    /\ strategy_idx > Len(Strategies(strategy_type))
    /\ orch_pc' = "finish"
    /\ UNCHANGED <<remote_lists,
                   max_posts, strategy_type, all_post_urls, strategy_results,
                   consecutive_low_gains, strategy_idx, remaining,
                   new_urls, fetched, sub_idx, orch_result>>
    /\ orchFrame

\* top of the loop body: break on enough volume after two strategies
orch_volume_exit ==
    /\ orch_pc = "loop"
    /\ strategy_idx <= Len(Strategies(strategy_type))
    /\ VolumeExit(Len(all_post_urls), max_posts, strategy_idx - 1)
    /\ orch_pc' = "finish"
    /\ UNCHANGED <<remote_lists,
                   max_posts, strategy_type, all_post_urls, strategy_results,
                   consecutive_low_gains, strategy_idx, remaining,
                   new_urls, fetched, sub_idx, orch_result>>
    /\ orchFrame

\* top of the loop body otherwise: the quota of the strategy, and its call
orch_begin_strategy ==
    /\ orch_pc = "loop"
    /\ strategy_idx <= Len(Strategies(strategy_type))
    /\ ~VolumeExit(Len(all_post_urls), max_posts, strategy_idx - 1)
    /\ remaining' = Max(100, max_posts - Len(all_post_urls))
    /\ new_urls' = <<>>
    /\ fetched' = <<>>
    /\ sub_idx' = 1
    /\ orch_pc' = "strategy"
    /\ UNCHANGED <<remote_lists,
                   max_posts, strategy_type, all_post_urls, strategy_results,
                   consecutive_low_gains, strategy_idx, orch_result>>
    /\ orchFrame

\* one iteration of the loop of _execute_time_range_strategy or
\* _execute_sort_strategy: a paginated listing of at most
\* min(max(100, quota - len(new_urls)), 1000) candidates, merged into
\* new_urls without the ids already collected
execute_listing_step ==
    /\ orch_pc = "strategy"
    /\ CurrentStrategy.name \in ListingStrategies
    /\ sub_idx <= Len(CurrentStrategy.params)
    /\ Len(new_urls) < remaining
    /\ \E listing \in remote_lists :
        LET posts == Take(listing,
                          Min(Max(100, remaining - Len(new_urls)), 1000))
            collected == IdsOf(all_post_urls \o new_urls)
        IN /\ fetched' = posts
           /\ new_urls' = new_urls \o Uncollected(posts, collected)
    /\ sub_idx' = sub_idx + 1
    /\ UNCHANGED <<remote_lists,
                   max_posts, strategy_type, all_post_urls, strategy_results,
                   consecutive_low_gains, strategy_idx, remaining, orch_pc,
                   orch_result>>
    /\ orchFrame

\* the loop of a listing strategy ends (every parameter used, or the quota
\* reached) and the strategy returns new_urls
execute_listing_return ==
    /\ orch_pc = "strategy"
    /\ CurrentStrategy.name \in ListingStrategies
    /\ sub_idx > Len(CurrentStrategy.params) \/ Len(new_urls) >= remaining
    /\ orch_pc' = "merge"
    /\ UNCHANGED <<remote_lists,
                   max_posts, strategy_type, all_post_urls, strategy_results,
                   consecutive_low_gains, strategy_idx, remaining,
                   new_urls, fetched, sub_idx, orch_result>>
    /\ orchFrame

\* _execute_search_strategy, _execute_deep_paging_strategy and
\* _execute_advanced_search_strategy: one retrieval call, which stops at
\* the quota, then the merge without the ids of existing_urls and without
\* repeated ids
execute_single_call_strategy ==
    /\ orch_pc = "strategy"
    /\ CurrentStrategy.name \in SingleCallStrategies
    /\ \E found \in remote_lists :
        LET posts == Take(found, remaining)
        IN /\ fetched' = posts
           /\ new_urls' = Uncollected(posts, IdsOf(all_post_urls))
    /\ orch_pc' = "merge"
    /\ UNCHANGED <<remote_lists,
                   max_posts, strategy_type, all_post_urls, strategy_results,
                   consecutive_low_gains, strategy_idx, remaining, sub_idx,
                   orch_result>>
    /\ orchFrame

\* _execute_praw_strategy when get_praw_enhanced_posts returns candidates
execute_praw_strategy ==
    /\ orch_pc = "strategy"
    /\ CurrentStrategy.name = "praw_enhanced"
    /\ \E posts \in remote_lists \ {<<>>} :
        /\ fetched' = posts
        /\ new_urls' = Uncollected(posts, IdsOf(all_post_urls))
    /\ orch_pc' = "merge"
    /\ UNCHANGED <<remote_lists,
                   max_posts, strategy_type, all_post_urls, strategy_results,
                   consecutive_low_gains, strategy_idx, remaining, sub_idx,
                   orch_result>>
    /\ orchFrame

\* _execute_praw_strategy when get_praw_enhanced_posts returns []: the
\* fallback over hot, new, top starts with backup_posts = []
execute_praw_unavailable ==
    /\ orch_pc = "strategy"
    /\ CurrentStrategy.name = "praw_enhanced"
    /\ fetched' = <<>>
    /\ sub_idx' = 1
    /\ orch_pc' = "praw_fallback"
    /\ UNCHANGED <<remote_lists,
                   max_posts, strategy_type, all_post_urls, strategy_results,
                   consecutive_low_gains, strategy_idx, remaining, new_urls,
                   orch_result>>
    /\ orchFrame

\* one iteration of the fallback loop: a paginated listing of at most
\* min(quota // 3, 500) candidates appended to backup_posts (held in
\* fetched); the loop breaks once len(backup_posts) >= quota
praw_fallback_step ==
    /\ orch_pc = "praw_fallback"
    /\ sub_idx <= 3
    /\ \E listing \in remote_lists :
        LET backup == fetched \o Take(listing, Min(remaining \div 3, 500))
        IN /\ fetched' = backup
           /\ sub_idx' = IF Len(backup) >= remaining THEN 4 ELSE sub_idx + 1
    /\ UNCHANGED <<remote_lists,
                   max_posts, strategy_type, all_post_urls, strategy_results,
                   consecutive_low_gains, strategy_idx, remaining, new_urls,
                   orch_pc, orch_result>>
    /\ orchFrame

\* one iteration of the fallback loop in which get_all_posts_paginated
\* raises: "except Exception: continue"
praw_fallback_failed ==
    /\ orch_pc = "praw_fallback"
    /\ sub_idx <= 3
    /\ sub_idx' = sub_idx + 1
    /\ UNCHANGED <<remote_lists,
                   max_posts, strategy_type, all_post_urls, strategy_results,
                   consecutive_low_gains, strategy_idx, remaining, new_urls,
                   fetched, orch_pc, orch_result>>
    /\ orchFrame

praw_fallback_return_unfiltered ==
    /\ orch_pc = "praw_fallback"
    /\ sub_idx > 3
    /\ fetched' = Take(fetched, remaining)
    /\ new_urls' = Take(fetched, remaining)
    /\ orch_pc' = "merge"
    /\ UNCHANGED <<remote_lists,
                   max_posts, strategy_type, all_post_urls, strategy_results,
                   consecutive_low_gains, strategy_idx, remaining, sub_idx,
                   orch_result>>
    /\ orchFrame

\* after the fallback loop: praw_posts = backup_posts[:quota], then the merge
praw_fallback_return ==
    /\ orch_pc = "praw_fallback"
    /\ sub_idx > 3
    /\ fetched' = Take(fetched, remaining)
    /\ new_urls' = Uncollected(Take(fetched, remaining), IdsOf(all_post_urls))
    /\ orch_pc' = "merge"
    /\ UNCHANGED <<remote_lists,
                   max_posts, strategy_type, all_post_urls, strategy_results,
                   consecutive_low_gains, strategy_idx, remaining, sub_idx,
                   orch_result>>
    /\ orchFrame

\* rest of the loop body: all_post_urls.extend(...), the gain, the low-gain
\* counter and the saturation check
orch_merge ==
    /\ orch_pc = "merge"
    /\ LET merged == all_post_urls \o new_urls
           gain == Len(merged) - Len(all_post_urls)
           results == Append(strategy_results, gain)
           low == IF LowGain(gain) THEN consecutive_low_gains + 1 ELSE 0
       IN /\ all_post_urls' = merged
          /\ strategy_results' = results
          /\ new_urls' = <<>>
          /\ IF SaturationSuspected(low, results)
             THEN IF EnoughCandidates(Len(merged), max_posts)
                  THEN /\ consecutive_low_gains' = low
                       /\ orch_pc' = "finish"
                       /\ strategy_idx' = strategy_idx
                  ELSE /\ consecutive_low_gains' = 0
                       /\ orch_pc' = "loop"
                       /\ strategy_idx' = strategy_idx + 1
             ELSE /\ consecutive_low_gains' = low
                  /\ orch_pc' = "loop"
                  /\ strategy_idx' = strategy_idx + 1
    /\ UNCHANGED <<remote_lists,
                   max_posts, strategy_type, remaining, fetched, sub_idx,
                   orch_result>>
    /\ orchFrame

\* after the loop: the list returned
orch_return ==
    /\ orch_pc = "finish"
    /\ orch_result' = Returned(all_post_urls, max_posts)
    /\ orch_pc' = "done"
    /\ UNCHANGED <<remote_lists,
                   max_posts, strategy_type, all_post_urls, strategy_results,
                   consecutive_low_gains, strategy_idx, remaining,
                   new_urls, fetched, sub_idx>>
    /\ orchFrame

NextOrch ==
    \/ orch_loop_end
    \/ orch_volume_exit
    \/ orch_begin_strategy
    \/ execute_listing_step
    \/ execute_listing_return
    \/ execute_single_call_strategy
    \/ execute_praw_strategy
    \/ execute_praw_unavailable
    \/ praw_fallback_step
    \/ praw_fallback_failed
    \/ praw_fallback_return
    \/ orch_merge
    \/ orch_return

----------------------------------------------------------------------------
\* Concurrent fetch stage of RedditScraper.scrape (scraper.py:133-221).
\* Task t is the t-th candidate that survived the dedup filter.  A future
\* is "new" before executor.submit, "pending" in the executor's queue,
\* "check", "passed", "fetch" or "raised" while a pool thread executes
\* process_post (before the test of scraped_count, after it, inside
\* scrape_post, inside the except clause), "success" or "none" once
\* process_post has returned that result, "yielded" once as_completed has
\* handed it to the main thread, and "cancelled".  A task whose call never
\* returns is "hung".

max_workers == 5

Tasks == 1..num_posts

\* post id of the t-th candidate
PostId(t) == t

Running ==
    {t \in Tasks : future[t] \in {"check", "passed", "fetch", "raised", "hung"}}

Finished == {t \in Tasks : future[t] \in {"success", "none"}}

\* a pool that may start one thread more than max_workers
PoolHasIdleThreadOneMore(running) == Cardinality(running) < max_workers + 1

\* ThreadPoolExecutor(max_workers=5): a work item is taken by one of at most
\* max_workers threads, each executing one item at a time
PoolHasIdleThread(running) == Cardinality(running) < max_workers

\* values of the fetch-stage variables while another component is exercised
FetchIdle ==
    /\ num_posts = 0
    /\ scrape_max_posts = 1
    /\ future = <<>>
    /\ scraped_count = 0
    /\ error_count = 0
    /\ completed_count = 0
    /\ scraped_posts = <<>>
    /\ scrape_pc = "idle"
    /\ loaded = <<>>

\* the state of scrape() with n candidates left by the dedup filter, before
\* the pool is created
FetchStart(n) ==
    /\ num_posts = n
    /\ future = [t \in 1..n |-> "new"]
    /\ scraped_count = 0
    /\ error_count = 0
    /\ completed_count = 0
    /\ scraped_posts = <<>>
    /\ scrape_pc = "submit"
    /\ loaded = [t \in 1..n |-> NoValue]

\* a run over a few candidates, every step of a worker on its own
FetchInit ==
    /\ scrape_max_posts \in 1..MaxGoal
    /\ \E n \in 1..MaxPosts : FetchStart(n)

\* a run over more candidates than the pool has threads
PoolInit ==
    /\ scrape_max_posts \in 1..MaxTarget
    /\ \E n \in 1..MaxCandidates : FetchStart(n)

fetchFrame == UNCHANGED <<rateVars, clockVars, orchVars, restVars,
                          post_urls_with_ids, batch_size, new_posts, dedup_pc>>

\* future_to_url = {executor.submit(process_post, task): task for task in
\* tasks}: every task is queued, in the order of the candidates.  A pool
\* thread that starts a task while later ones are still being submitted
\* reads and writes nothing the submissions touch, so the comprehension is
\* one step.
executor_submit ==
    /\ scrape_pc = "submit"
    /\ future' = [t \in Tasks |-> "pending"]
    /\ scrape_pc' = "collect"
    /\ UNCHANGED <<num_posts, scrape_max_posts, scraped_count, error_count,
                   completed_count, scraped_posts, existing_ids, loaded>>
    /\ fetchFrame

\* a pool thread takes the oldest work item that is not cancelled
worker_run ==
    /\ \E t \in Tasks :
        /\ future[t] = "pending"
        /\ \A u \in Tasks : u < t => future[u] # "pending"
        /\ PoolHasIdleThread(Running)
        /\ future' = [future EXCEPT ![t] = "check"]
    /\ UNCHANGED <<num_posts, scrape_max_posts, scraped_count, error_count,
                   completed_count, scraped_posts, scrape_pc,
                   existing_ids, loaded>>
    /\ fetchFrame

\* process_post: if self.scraped_count >= max_posts: return None
process_post_check ==
    /\ \E t \in Tasks :
        /\ future[t] = "check"
        /\ future' = [future EXCEPT ![t] =
                        IF scraped_count >= scrape_max_posts
                        THEN "none" ELSE "passed"]
    /\ UNCHANGED <<num_posts, scrape_max_posts, scraped_count, error_count,
                   completed_count, scraped_posts, scrape_pc,
                   existing_ids, loaded>>
    /\ fetchFrame

\* process_post: after the test and the log line, scrape_post is called
process_post_fetch ==
    /\ \E t \in Tasks :
        /\ future[t] = "passed"
        /\ future' = [future EXCEPT ![t] = "fetch"]
    /\ UNCHANGED <<num_posts, scrape_max_posts, scraped_count, error_count,
                   completed_count, scraped_posts, scrape_pc,
                   existing_ids, loaded>>
    /\ fetchFrame

\* process_post: scrape_post succeeded, the post is saved at once
\* (LocalDataManager.save_post) and the result returned
process_post_success ==
    /\ \E t \in Tasks :
        /\ future[t] = "fetch"
        /\ future' = [future EXCEPT ![t] = "success"]
        /\ existing_ids' = existing_ids \cup {PostId(t)}
    /\ UNCHANGED <<num_posts, scrape_max_posts, scraped_count, error_count,
                   completed_count, scraped_posts, scrape_pc, loaded>>
    /\ fetchFrame

\* process_post: scrape_post returned an error result (it turns every
\* exception of the request, a timeout included, into one); None is returned
process_post_failed ==
    /\ \E t \in Tasks :
        /\ future[t] = "fetch"
        /\ future' = [future EXCEPT ![t] = "none"]
    /\ UNCHANGED <<num_posts, scrape_max_posts, scraped_count, error_count,
                   completed_count, scraped_posts, scrape_pc,
                   existing_ids, loaded>>
    /\ fetchFrame

\* process_post: save_post raised, the except clause is entered and
\* "self.error_count += 1" reads the counter
process_post_raised ==
    /\ \E t \in Tasks :
        /\ future[t] = "fetch"
        /\ future' = [future EXCEPT ![t] = "raised"]
        /\ loaded' = [loaded EXCEPT ![t] = error_count]
    /\ UNCHANGED <<num_posts, scrape_max_posts, scraped_count, error_count,
                   completed_count, scraped_posts, scrape_pc,
                   existing_ids>>
    /\ fetchFrame

\* process_post: "self.error_count += 1" writes the value read plus one;
\* None is returned
process_post_count_error ==
    /\ \E t \in Tasks :
        /\ future[t] = "raised"
        /\ error_count' = loaded[t] + 1
        /\ future' = [future EXCEPT ![t] = "none"]
        /\ loaded' = [loaded EXCEPT ![t] = NoValue]
    /\ UNCHANGED <<num_posts, scrape_max_posts, scraped_count,
                   completed_count, scraped_posts, scrape_pc,
                   existing_ids>>
    /\ fetchFrame

\* one iteration of "for future in as_completed(...)" up to the test of
\* scraped_count: the result of a finished future is counted
collect_result ==
    /\ scrape_pc = "collect"
    /\ \E t \in Finished :
        LET scraped == IF future[t] = "success"
                       THEN scraped_count + 1 ELSE scraped_count
        IN /\ completed_count' = completed_count + 1
           /\ scraped_count' = scraped
           /\ scraped_posts' = IF future[t] = "success"
                               THEN Append(scraped_posts, t)
                               ELSE scraped_posts
           /\ future' = [future EXCEPT ![t] = "yielded"]
           /\ scrape_pc' = IF scraped >= scrape_max_posts
                           THEN "cancel"
                           ELSE IF \A u \in Tasks \ {t} :
                                      future[u] = "yielded"
                                THEN "shutdown" ELSE "collect"
    /\ UNCHANGED <<num_posts, scrape_max_posts, error_count, existing_ids,
                   loaded>>
    /\ fetchFrame

\* if self.scraped_count >= max_posts: every future is cancelled, which
\* takes effect on those still pending, and the loop is left
collect_cancel ==
    /\ scrape_pc = "cancel"
    /\ future' = [u \in Tasks |->
                    IF future[u] = "pending" THEN "cancelled" ELSE future[u]]
    /\ scrape_pc' = "shutdown"
    /\ UNCHANGED <<num_posts, scrape_max_posts, scraped_count, error_count,
                   completed_count, scraped_posts, existing_ids, loaded>>
    /\ fetchFrame

\* leaving the with block: executor.shutdown(wait=True) returns once no work
\* item is queued or running
executor_shutdown ==
    /\ scrape_pc = "shutdown"
    /\ \A t \in Tasks :
          future[t] \in {"success", "none", "yielded", "cancelled"}
    /\ scrape_pc' = "done"
    /\ UNCHANGED <<num_posts, scrape_max_posts, future, scraped_count,
                   error_count, completed_count, scraped_posts,
                   existing_ids, loaded>>
    /\ fetchFrame

\* process_post: a call made by the task (the request, the log callback,
\* the write to disk) never returns
process_post_hangs ==
    /\ \E t \in Tasks :
        /\ future[t] = "fetch"
        /\ future' = [future EXCEPT ![t] = "hung"]
    /\ UNCHANGED <<num_posts, scrape_max_posts, scraped_count, error_count,
                   completed_count, scraped_posts, scrape_pc,
                   existing_ids, loaded>>
    /\ fetchFrame

\* one iteration of the as_completed loop in which progress_callback raises
\* at line 196: the result has been counted, "except Exception" counts an
\* error and the future a second time and calls progress_callback again;
\* if that call raises too the exception leaves the loop, otherwise the
\* loop goes on without the test of scraped_count
collect_callback_raised ==
    /\ scrape_pc = "collect"
    /\ \E t \in Finished, again \in BOOLEAN :
        /\ completed_count' = completed_count + 2
        /\ scraped_count' = IF future[t] = "success"
                            THEN scraped_count + 1 ELSE scraped_count
        /\ scraped_posts' = IF future[t] = "success"
                            THEN Append(scraped_posts, t)
                            ELSE scraped_posts
        /\ error_count' = error_count + 1
        /\ future' = [future EXCEPT ![t] = "yielded"]
        /\ scrape_pc' = IF again THEN "raising"
                        ELSE IF \A u \in Tasks \ {t} : future[u] = "yielded"
                             THEN "shutdown" ELSE "collect"
    /\ UNCHANGED <<num_posts, scrape_max_posts, existing_ids, loaded>>
    /\ fetchFrame

\* the with block left by an exception: shutdown(wait=True) lets the pool
\* run every queued work item, then the exception leaves scrape()
executor_shutdown_raising ==
    /\ scrape_pc = "raising"
    /\ \A t \in Tasks :
          future[t] \in {"success", "none", "yielded", "cancelled"}
    /\ scrape_pc' = "aborted"
    /\ UNCHANGED <<num_posts, scrape_max_posts, future, scraped_count,
                   error_count, completed_count, scraped_posts,
                   existing_ids, loaded>>
    /\ fetchFrame

\* the run in which save_post never raises
NextPool ==
    \/ executor_submit
    \/ worker_run
    \/ process_post_check
    \/ process_post_fetch
    \/ process_post_success
    \/ process_post_failed
    \/ collect_result
    \/ collect_cancel
    \/ executor_shutdown

NextFetch ==
    \/ executor_submit
    \/ worker_run
    \/ process_post_check
    \/ process_post_fetch
    \/ process_post_success
    \/ process_post_failed
    \/ process_post_raised
    \/ process_post_count_error
    \/ collect_result
    \/ collect_cancel
    \/ executor_shutdown

----------------------------------------------------------------------------
\* The sequential fetch loop of EnhancedUofTScraper.run_enhanced_scraping
\* (enhanced_scraper.py:1363-1600).  Candidate k of post_urls has post id k;
\* the candidates have passed filter_new_posts_batch, so none is in the store.

\* targets up to this size are saved post by post
ImmediateLimit == 20
LargeBatch == 50
SmallBatch == 10

\* BATCH_SIZE = min(10, needed_posts) if needed_posts <= 20 else 50
BATCH_SIZE(needed) ==
    IF needed <= ImmediateLimit THEN Min(SmallBatch, needed) ELSE LargeBatch

RunTargets ==
    (1..MaxImmediate) \cup
    ((ImmediateLimit + 1)..(ImmediateLimit + MaxAboveLimit))

SeqToSet(q) == {q[k] : k \in 1..Len(q)}

\* local_data_manager.get_posts_count()
get_posts_count(store) == Cardinality(store)

\* LocalDataManager.save_post: False for a post the store holds, otherwise
\* the post is written and True returned
SavePostReturns(store, post_id) == post_id \notin store

\* LocalDataManager.save_posts_batch: the number of posts save_post wrote
save_posts_batch(store, posts) ==
    Cardinality({k \in 1..Len(posts) :
                    /\ posts[k] \notin store
                    /\ \A j \in 1..(k - 1) : posts[j] # posts[k]})

\* whether the buffer is written after the post at index idx was appended
FlushesBatch(buffer, needed, idx, total) ==
    Len(buffer) >= BATCH_SIZE(needed) \/ idx = total

RunIdle ==
    /\ run_max_posts = 1
    /\ run_num_posts = 0
    /\ post_idx = 1
    /\ run_scraped_count = 0
    /\ run_scraped_posts = <<>>
    /\ posts_to_save = <<>>
    /\ backup_urls = <<>>
    /\ failed_fetches = 0
    /\ run_pc = "idle"

RunInit ==
    /\ run_max_posts \in RunTargets
    /\ run_num_posts \in 1..(run_max_posts + MaxSurplus)
    /\ post_idx = 1
    /\ run_scraped_count = 0
    /\ run_scraped_posts = <<>>
    /\ posts_to_save = <<>>
    /\ backup_urls = <<>>
    /\ failed_fetches = 0
    /\ run_pc = "loop"

runFrame == UNCHANGED <<rateVars, clockVars, orchVars, fetchVars, pageVars,
                        parseVars, moreVars,
                        post_urls_with_ids, batch_size, new_posts, dedup_pc>>

\* top of the loop: if self.scraped_count >= max_posts: break
run_target_reached ==
    /\ run_pc = "loop"
    /\ post_idx <= run_num_posts
    /\ run_scraped_count >= run_max_posts
    /\ run_pc' = "after_loop"
    /\ UNCHANGED <<run_max_posts, run_num_posts, post_idx, run_scraped_count,
                   run_scraped_posts, posts_to_save, backup_urls,
                   failed_fetches, existing_ids>>
    /\ runFrame

\* the for loop has consumed post_urls
run_loop_end ==
    /\ run_pc = "loop"
    /\ post_idx > run_num_posts
    /\ run_pc' = "after_loop"
    /\ UNCHANGED <<run_max_posts, run_num_posts, post_idx, run_scraped_count,
                   run_scraped_posts, posts_to_save, backup_urls,
                   failed_fetches, existing_ids>>
    /\ runFrame

\* one iteration in which scrape_post_with_comments returns None
run_post_failed ==
    /\ run_pc = "loop"
    /\ post_idx <= run_num_posts
    /\ run_scraped_count < run_max_posts
    /\ failed_fetches < MaxFailed
    /\ failed_fetches' = failed_fetches + 1
    /\ post_idx' = post_idx + 1
    /\ UNCHANGED <<run_max_posts, run_num_posts, run_scraped_count,
                   run_scraped_posts, posts_to_save, backup_urls, run_pc,
                   existing_ids>>
    /\ runFrame

\* one iteration in which the post is fetched: it is counted, then saved at
\* once (needed_posts <= 20) or appended to posts_to_save, which is written
\* when it is full or the last candidate has been reached
run_post_scraped ==
    /\ run_pc = "loop"
    /\ post_idx <= run_num_posts
    /\ run_scraped_count < run_max_posts
    /\ run_scraped_posts' = Append(run_scraped_posts, post_idx)
    /\ run_scraped_count' = run_scraped_count + 1
    /\ LET reached == run_scraped_count + 1 >= run_max_posts
           buffer == Append(posts_to_save, post_idx)
       IN IF run_max_posts <= ImmediateLimit
          THEN /\ existing_ids' = existing_ids \cup {post_idx}
               /\ posts_to_save' = posts_to_save
               /\ run_pc' = IF SavePostReturns(existing_ids, post_idx) /\ reached
                            THEN "after_loop" ELSE "loop"
          ELSE IF FlushesBatch(buffer, run_max_posts, post_idx, run_num_posts)
          THEN /\ existing_ids' = existing_ids \cup SeqToSet(buffer)
               /\ IF save_posts_batch(existing_ids, buffer) > 0 /\ reached
                  THEN posts_to_save' = buffer /\ run_pc' = "after_loop"
                  ELSE posts_to_save' = <<>> /\ run_pc' = "loop"
          ELSE /\ existing_ids' = existing_ids
               /\ posts_to_save' = buffer
               /\ run_pc' = "loop"
    /\ post_idx' = post_idx + 1
    /\ UNCHANGED <<run_max_posts, run_num_posts, backup_urls,
                   failed_fetches>>
    /\ runFrame

\* after the loop: if the store holds fewer than max_posts posts, the first
\* backup strategy that finds posts the store does not hold has its first
\* remaining_needed candidates processed
run_check_goal ==
    /\ run_pc = "after_loop"
    /\ IF get_posts_count(existing_ids) < run_max_posts /\ run_num_posts > 0
       THEN \E found \in SeqsUpTo((1..(run_num_posts + MaxBackup))
                                      \ existing_ids, MaxBackup) :
               /\ backup_urls' =
                    Take(found, run_max_posts - get_posts_count(existing_ids))
               /\ run_pc' = IF found = <<>> THEN "done" ELSE "backup"
       ELSE backup_urls' = <<>> /\ run_pc' = "done"
    /\ UNCHANGED <<run_max_posts, run_num_posts, post_idx, run_scraped_count,
                   run_scraped_posts, posts_to_save, failed_fetches,
                   existing_ids>>
    /\ runFrame

\* a backup candidate is fetched, saved at once and counted
run_backup_scraped ==
    /\ run_pc = "backup"
    /\ backup_urls # <<>>
    /\ LET post_id == Head(backup_urls)
           store == existing_ids \cup {post_id}
       IN /\ existing_ids' = store
          /\ run_scraped_posts' = Append(run_scraped_posts, post_id)
          /\ run_scraped_count' = run_scraped_count + 1
          /\ backup_urls' = Tail(backup_urls)
          /\ run_pc' = IF get_posts_count(store) >= run_max_posts
                          \/ Tail(backup_urls) = <<>>
                       THEN "done" ELSE "backup"
    /\ UNCHANGED <<run_max_posts, run_num_posts, post_idx, posts_to_save,
                   failed_fetches>>
    /\ runFrame

\* a backup candidate whose fetch returns None
run_backup_failed ==
    /\ run_pc = "backup"
    /\ backup_urls # <<>>
    /\ backup_urls' = Tail(backup_urls)
    /\ run_pc' = IF Tail(backup_urls) = <<>> THEN "done" ELSE "backup"
    /\ UNCHANGED <<run_max_posts, run_num_posts, post_idx, run_scraped_count,
                   run_scraped_posts, posts_to_save, failed_fetches,
                   existing_ids>>
    /\ runFrame

NextRun ==
    \/ run_target_reached
    \/ run_loop_end
    \/ run_post_failed
    \/ run_post_scraped
    \/ run_check_goal
    \/ run_backup_scraped
    \/ run_backup_failed

----------------------------------------------------------------------------
\* PaginatedStrategy.fetch_posts (strategies/paginated.py:15-183) with the
\* rate controller of core/rate_limiter.py.  The k-th post the listing
\* returns has id k.

\* limit=100 of the listing request
PageLimit == 100
\* "if consecutive_timeouts >= 3"
TimeoutLimit == 3
MAX_CONSECUTIVE_ERRORS == 3

FetchTargets == (1..MaxFetchTarget) \cup {PageLimit + 1}

\* the sizes of a page that is not empty
PageSizes == (1..MaxShortPage) \cup {PageLimit}

\* the page requests that failed since the last page that arrived: their
\* number, the kind of the last one ("timeout" for requests.Timeout, "error"
\* for what "except Exception" catches) and the number of failures of that
\* kind at the end of the run
NoFailure == [kind |-> "none", same |-> 0, total |-> 0]

FailedPage(kind) ==
    [kind |-> kind,
     same |-> IF failed_pages.kind = kind THEN failed_pages.same + 1 ELSE 1,
     total |-> failed_pages.total + 1]

PageIdle ==
    /\ fetch_max_posts = 1
    /\ post_urls = <<>>
    /\ after = FALSE
    /\ page = 1
    /\ consecutive_timeouts = 0
    /\ consecutive_errors = 0
    /\ requests = 0
    /\ page_pc = "idle"
    /\ failed_pages = NoFailure

PageInit ==
    /\ fetch_max_posts \in FetchTargets
    /\ post_urls = <<>>
    /\ after = FALSE
    /\ page = 1
    /\ consecutive_timeouts = 0
    /\ consecutive_errors = 0
    /\ requests = 0
    /\ page_pc = "loop"
    /\ failed_pages = NoFailure

pageFrame == UNCHANGED <<dedupVars, orchVars, fetchVars, runVars, parseVars,
                         moreVars, now>>

\* a request is sent: the loop condition holds and get_delay has been read
SendsRequest ==
    /\ page_pc = "loop"
    /\ Len(post_urls) < fetch_max_posts
    /\ requests < MaxRequests
    /\ requests' = requests + 1
    /\ delay_returned' = DelayAt(now, last_429_time, current_delay)

\* rate_controller.record_success() as called by fetch_posts
CountsSuccess ==
    /\ total_requests' = total_requests + 1
    /\ successful_requests' = successful_requests + 1
    /\ success_streak' = success_streak + 1
    /\ consecutive_429s' = 0
    /\ IF ExitsCooldown(cooldown_mode, success_streak + 1)
       THEN /\ cooldown_mode' = FALSE
            /\ session_refresh_needed' = FALSE
       ELSE UNCHANGED <<cooldown_mode, session_refresh_needed>>
    /\ current_delay' = RecoveredDelay(success_streak + 1, current_delay)
    /\ UNCHANGED <<last_429_time, cooldown_start_time>>

\* while len(post_urls) < max_posts fails: the list is returned
fetch_posts_return ==
    /\ page_pc = "loop"
    /\ Len(post_urls) >= fetch_max_posts
    /\ page_pc' = "done"
    /\ UNCHANGED <<fetch_max_posts, post_urls, after, page,
                   consecutive_timeouts, consecutive_errors, requests>>
    /\ UNCHANGED <<rateVars, delay_returned>>
    /\ UNCHANGED failed_pages
    /\ pageFrame

\* status 403, or a response that is not JSON: break
fetch_posts_blocked ==
    /\ SendsRequest
    /\ page_pc' = "done"
    /\ UNCHANGED <<fetch_max_posts, post_urls, after, page,
                   consecutive_timeouts, consecutive_errors>>
    /\ UNCHANGED rateVars
    /\ UNCHANGED failed_pages
    /\ pageFrame

\* status 429: _handle_rate_limit (record_429_error, then the session is
\* refreshed and marked if that is needed) and continue
fetch_posts_rate_limited ==
    /\ SendsRequest
    /\ total_requests' = total_requests + 1
    /\ consecutive_429s' = consecutive_429s + 1
    /\ success_streak' = 0
    /\ last_429_time' = now
    /\ current_delay' = BackoffDelay(consecutive_429s + 1, current_delay)
    /\ IF EntersCooldown(consecutive_429s + 1) /\ ~cooldown_mode
       THEN /\ cooldown_mode' = TRUE
            /\ cooldown_start_time' = now
       ELSE UNCHANGED <<cooldown_mode, cooldown_start_time>>
    /\ session_refresh_needed' = FALSE
    /\ UNCHANGED successful_requests
    /\ UNCHANGED <<fetch_max_posts, post_urls, after, page,
                   consecutive_timeouts, consecutive_errors, page_pc>>
    /\ UNCHANGED failed_pages
    /\ pageFrame

\* a JSON response with status 200: record_success, the posts of the page
\* appended up to max_posts, then the end-of-listing tests and the cursor
fetch_posts_page ==
    /\ SendsRequest
    /\ CountsSuccess
    /\ consecutive_timeouts' = 0
    /\ consecutive_errors' = 0
    /\ \E size \in {0} \cup PageSizes, cursor \in BOOLEAN :
        LET taken == Min(size, fetch_max_posts - Len(post_urls))
            urls == post_urls \o
                      [k \in 1..taken |-> Cand(Len(post_urls) + k)]
        IN /\ post_urls' = urls
           /\ IF size = 0 \/ size < PageLimit
              THEN UNCHANGED <<after, page>> /\ page_pc' = "done"
              ELSE /\ after' = cursor
                   /\ IF cursor
                      THEN page' = page + 1 /\ page_pc' = "loop"
                      ELSE page' = page /\ page_pc' = "done"
    /\ UNCHANGED fetch_max_posts
    /\ failed_pages' = NoFailure
    /\ pageFrame

\* a JSON response with an error status: record_success has been called
\* and the counters reset when raise_for_status raises into "except
\* Exception"
fetch_posts_http_error ==
    /\ SendsRequest
    /\ CountsSuccess
    /\ consecutive_timeouts' = 0
    /\ consecutive_errors' = 1
    /\ IF Len(post_urls) > 0 /\ after
       THEN page' = page + 1 /\ page_pc' = "loop"
       ELSE page' = page /\ page_pc' = "done"
    /\ UNCHANGED <<fetch_max_posts, post_urls, after>>
    /\ failed_pages' = FailedPage("error")
    /\ pageFrame

\* a response with status 200 whose body cannot be parsed or has no
\* data.children: record_success has been called, then break
fetch_posts_bad_json ==
    /\ SendsRequest
    /\ CountsSuccess
    /\ consecutive_timeouts' = 0
    /\ consecutive_errors' = 0
    /\ page_pc' = "done"
    /\ UNCHANGED <<fetch_max_posts, post_urls, after, page>>
    /\ failed_pages' = NoFailure
    /\ pageFrame

\* requests.exceptions.Timeout
fetch_posts_timeout ==
    /\ SendsRequest
    /\ consecutive_timeouts' = consecutive_timeouts + 1
    /\ page_pc' = IF consecutive_timeouts + 1 >= TimeoutLimit
                  THEN "done" ELSE "loop"
    /\ UNCHANGED <<fetch_max_posts, post_urls, after, page,
                   consecutive_errors>>
    /\ UNCHANGED rateVars
    /\ failed_pages' = FailedPage("timeout")
    /\ pageFrame

\* any other exception of the request (a connection error)
fetch_posts_error ==
    /\ SendsRequest
    /\ consecutive_errors' = consecutive_errors + 1
    /\ IF consecutive_errors + 1 < MAX_CONSECUTIVE_ERRORS
          /\ Len(post_urls) > 0 /\ after
       THEN page' = page + 1 /\ page_pc' = "loop"
       ELSE page' = page /\ page_pc' = "done"
    /\ UNCHANGED <<fetch_max_posts, post_urls, after, consecutive_timeouts>>
    /\ UNCHANGED rateVars
    /\ failed_pages' = FailedPage("error")
    /\ pageFrame

NextPage ==
    \/ fetch_posts_return
    \/ fetch_posts_blocked
    \/ fetch_posts_rate_limited
    \/ fetch_posts_page
    \/ fetch_posts_http_error
    \/ fetch_posts_bad_json
    \/ fetch_posts_timeout
    \/ fetch_posts_error

\* RedditPostScraper.parse_comment_tree (post_scraper.py:109-164)
\*
\* A comment listing is a tree of children.  Its nodes are numbered
\* 1..nodes; comment_data.node[n].parent is the node whose 'replies' holds
\* n (PostNode when n is a child of the top listing), and the children of a
\* listing stand in the order of their numbers.  A node is a comment ('t1')
\* or a continuation marker ('more') with the count of hidden comments; only
\* a comment has replies.  A comment without replies carries replies = ""
\* in the JSON, here an empty list of children.  The id of a comment is its
\* node number and the id of the post is PostNode.

MaxNodes == 5
MaxCount == 5

PostNode == 0

NoListing == [kind |-> "none", nodes |-> 0, node |-> <<>>]

\* what a child of a listing is: a comment, or a marker with its count
NodeKinds ==
    {[kind |-> "t1", count |-> 0]}
        \cup {[kind |-> "more", count |-> c] : c \in {0, MaxCount}}

\* the reply trees of n nodes as reddit sends them: the holder of a node
\* is the post or an earlier comment (only a comment has replies)
RECURSIVE ReplyTrees(_)
ReplyTrees(n) ==
    IF n = 0 THEN {<<>>}
    ELSE {Append(x[1], [kind |-> x[2].kind, count |-> x[2].count,
                        parent |-> x[3]]) :
            x \in {y \in ReplyTrees(n - 1) \X NodeKinds
                            \X (PostNode..(n - 1)) :
                      y[3] # PostNode => y[1][y[3]].kind = "t1"}}

\* a response of the given kind that holds a reply tree
CommentListing(kind, tree) ==
    [kind |-> kind, nodes |-> Len(tree), node |-> tree]

RECURSIVE ChildrenFrom(_, _, _)
ChildrenFrom(data, holder, m) ==
    IF m > data.nodes THEN <<>>
    ELSE (IF data.node[m].parent = holder THEN <<m>> ELSE <<>>)
            \o ChildrenFrom(data, holder, m + 1)

\* data.get('children', []) of the listing held by holder, in order
children(data, holder) == ChildrenFrom(data, holder, 1)

\* the depth handed to the recursive call for the replies of a comment
reply_depth_same(depth) == depth

reply_depth(depth) == depth + 1

\* the loop over the children of one listing, from the k-th child on: the
\* list of comments it extends the result by
RECURSIVE parse_children(_, _, _, _, _)
parse_children(data, listed, k, depth, parent_id) ==
    IF k > Len(listed) THEN <<>>
    ELSE LET child == listed[k]
             replies == children(data, child)
         IN (IF data.node[child].kind = "t1"
             THEN <<[id |-> child, depth |-> depth,
                     parent_id |-> parent_id]>>
                    \o (IF replies # <<>>
                        THEN parse_children(data, replies, 1,
                                            reply_depth(depth), child)
                        ELSE <<>>)
             ELSE <<>>)
            \o parse_children(data, listed, k + 1, depth, parent_id)

parse_comment_tree(data, depth, parent_id) ==
    IF data.kind # "Listing" THEN <<>>
    ELSE parse_children(data, children(data, PostNode), 1, depth, parent_id)

\* the lines printed by the same traversal: one for every 'more' child
\* whose count is positive, with the count and the depth of its listing
RECURSIVE print_children(_, _, _, _)
print_children(data, listed, k, depth) ==
    IF k > Len(listed) THEN <<>>
    ELSE LET child == listed[k]
             replies == children(data, child)
         IN (IF data.node[child].kind = "t1"
             THEN (IF replies # <<>>
                   THEN print_children(data, replies, 1, reply_depth(depth))
                   ELSE <<>>)
             ELSE IF data.node[child].kind = "more"
                        /\ data.node[child].count > 0
                  THEN <<[count |-> data.node[child].count,
                          depth |-> depth]>>
                  ELSE <<>>)
            \o print_children(data, listed, k + 1, depth)

printed(data, depth) ==
    IF data.kind # "Listing" THEN <<>>
    ELSE print_children(data, children(data, PostNode), 1, depth)

ParseIdle ==
    /\ comment_data = NoListing
    /\ comments = <<>>
    /\ reported = <<>>
    /\ parse_pc = "idle"

ParseInit ==
    /\ \E n \in 0..MaxNodes : \E tree \in ReplyTrees(n) :
        \E kind \in {"Listing", "t3"} :
            comment_data = CommentListing(kind, tree)
    /\ comments = <<>>
    /\ reported = <<>>
    /\ parse_pc = "start"

parseFrame ==
    UNCHANGED <<rateVars, clockVars, dedupVars, orchVars, fetchVars, runVars,
                pageVars, moreVars, comment_data>>

\* scrape_post parses the comment listing of the post (post_scraper.py:243)
scrape_post_parse ==
    /\ parse_pc = "start"
    /\ comments' = parse_comment_tree(comment_data, 0, PostNode)
    /\ reported' = printed(comment_data, 0)
    /\ parse_pc' = "parsed"
    /\ parseFrame

\* the post is returned with its comments
scrape_post_return ==
    /\ parse_pc = "parsed"
    /\ parse_pc' = "returned"
    /\ UNCHANGED <<comments, reported>>
    /\ parseFrame

NextParse ==
    \/ scrape_post_parse
    \/ scrape_post_return

----------------------------------------------------------------------------
\* EnhancedUofTScraper.search_posts_by_keywords (enhanced_scraper.py:756-862)

\* len(keywords): 24 + 18 + 14 + 10 keywords
KeywordCount == 66
\* the quota a strategy is called with is max(100, ...)
MinQuota == 100
MaxSearchSurplus == 1
\* the keywords searched in a run of the model
MaxKeywords == 7
MaxSearchId == 2
MaxHits == 2

SearchTargets == {MinQuota + k : k \in 0..MaxSearchSurplus}

\* what a search answers with: a few posts, or a full page of 100
SearchResults ==
    SeqsUpTo({Cand(id) : id \in 1..MaxSearchId}, MaxHits)
        \cup {Listing(MaxSearchId + 1, MaxSearchId + PageLimit)}

\* posts_per_keyword = max(1, max(100, max_posts) // len(keywords)), which
\* the function computes and does not read again
posts_per_keyword(target) == Max(1, Max(100, target) \div KeywordCount)

\* rate_controller.record_429_error() as called by the search
Counts429Error ==
    /\ total_requests' = total_requests + 1
    /\ consecutive_429s' = consecutive_429s + 1
    /\ success_streak' = 0
    /\ last_429_time' = now
    /\ current_delay' = BackoffDelay(consecutive_429s + 1, current_delay)
    /\ IF EntersCooldown(consecutive_429s + 1) /\ ~cooldown_mode
       THEN /\ cooldown_mode' = TRUE
            /\ cooldown_start_time' = now
            /\ session_refresh_needed' = TRUE
       ELSE UNCHANGED <<cooldown_mode, cooldown_start_time,
                        session_refresh_needed>>
    /\ UNCHANGED successful_requests

\* rate_controller.record_other_error() as called by the search
CountsOtherError ==
    /\ total_requests' = total_requests + 1
    /\ success_streak' = 0
    /\ current_delay' = OtherErrorDelay(current_delay)
    /\ UNCHANGED <<consecutive_429s, last_429_time, successful_requests,
                   cooldown_mode, cooldown_start_time,
                   session_refresh_needed>>

SearchIdle ==
    /\ search_max_posts = MinQuota
    /\ keyword_idx = 1
    /\ search_urls = <<>>
    /\ keyword_new = 0
    /\ search_pc = "idle"

SearchInit ==
    /\ search_max_posts \in SearchTargets
    /\ keyword_idx = 1
    /\ search_urls = <<>>
    /\ keyword_new = 0
    /\ search_pc = "loop"

searchFrame ==
    UNCHANGED <<dedupVars, orchVars, fetchVars, runVars, pageVars, parseVars,
                itemVars, lastVars, now>>

\* the request of the keyword in hand is sent: every keyword has not been
\* searched yet, the quota of the strategy is not reached, the controller
\* does not advise to skip, and get_delay has been read
SearchesKeyword ==
    /\ search_pc = "loop"
    /\ keyword_idx <= KeywordCount
    /\ keyword_idx <= MaxKeywords
    /\ Len(search_urls) < search_max_posts
    /\ ~should_skip_strategy
    /\ keyword_idx' = keyword_idx + 1
    /\ delay_returned' = DelayAt(now, last_429_time, current_delay)

\* the function returns: the controller advises to skip (before the loop,
\* where post_urls is empty, or at a keyword), every keyword was searched,
\* or max_posts candidates are held
search_return ==
    /\ search_pc = "loop"
    /\ \/ should_skip_strategy
       \/ keyword_idx > KeywordCount
       \/ Len(search_urls) >= search_max_posts
    /\ search_pc' = "done"
    /\ UNCHANGED <<search_max_posts, keyword_idx, search_urls, keyword_new>>
    /\ UNCHANGED <<rateVars, delay_returned>>
    /\ searchFrame

\* status 200: record_success, then every post of the answer whose id was
\* not found before is appended until max_posts candidates are held
search_keyword_found ==
    /\ SearchesKeyword
    /\ CountsSuccess
    /\ \E posts \in SearchResults :
        LET fresh == Uncollected(posts, IdsOf(search_urls))
            added == Take(fresh, search_max_posts - Len(search_urls))
        IN /\ search_urls' = search_urls \o added
           /\ keyword_new' = Len(added)
    /\ UNCHANGED <<search_max_posts, search_pc>>
    /\ searchFrame

\* status 429: record_429_error and the next keyword
search_keyword_rate_limited ==
    /\ SearchesKeyword
    /\ total_requests - successful_requests < MaxErrors
    /\ Counts429Error
    /\ keyword_new' = 0
    /\ UNCHANGED <<search_max_posts, search_urls, search_pc>>
    /\ searchFrame

\* another status, or an exception of the request: record_other_error and
\* the next keyword
search_keyword_failed ==
    /\ SearchesKeyword
    /\ total_requests - successful_requests < MaxErrors
    /\ CountsOtherError
    /\ keyword_new' = 0
    /\ UNCHANGED <<search_max_posts, search_urls, search_pc>>
    /\ searchFrame

NextSearch ==
    \/ search_return
    \/ search_keyword_found
    \/ search_keyword_rate_limited
    \/ search_keyword_failed

----------------------------------------------------------------------------
\* The per-item fetch: EnhancedUofTScraper.scrape_post_with_comments
\* (enhanced_scraper.py:1244-1293), and RedditPostScraper.fetch_json
\* (post_scraper.py:69-107) as called by scrape_post under
\* RedditScraper.process_post (scraper.py:149-168)

MaxItems == 3

FetchPaths == {"with_comments", "fetch_json"}

\* what a request that is not answered with a post ends in: a timeout, or
\* another transport error
TransportErrors == {"timeout", "error"}

ItemIdle ==
    /\ item_path = "with_comments"
    /\ item_idx = 1
    /\ item_answers = <<>>
    /\ item_result = "none"
    /\ item_error_count = 0
    /\ errors_at_start = 0
    /\ item_pc = "idle"

ItemInit ==
    /\ item_path \in FetchPaths
    /\ item_idx = 1
    /\ item_answers = <<>>
    /\ item_result = "none"
    /\ item_error_count = 0
    /\ errors_at_start = 0
    /\ item_pc = "request"

itemFrame ==
    UNCHANGED <<dedupVars, orchVars, fetchVars, runVars, pageVars, parseVars,
                searchVars, lastVars, now>>

\* session.get of the item's JSON, answered with answer
ItemRequest(answer) ==
    /\ item_pc \in {"request", "retry"}
    /\ item_answers' = Append(item_answers, answer)

\* the fetch is over: the caller has a post, or None
ItemReturns(result, errors) ==
    /\ item_result' = result
    /\ item_error_count' = errors
    /\ item_pc' = "done"
    /\ UNCHANGED <<item_path, item_idx, errors_at_start>>

\* scrape_post_with_comments: the request, or the retry, is answered with
\* the post: record_success and the post data returned
scrape_with_comments_ok ==
    /\ item_path = "with_comments"
    /\ ItemRequest("ok")
    /\ CountsSuccess
    /\ delay_returned' = NoValue
    /\ ItemReturns("post", item_error_count)
    /\ itemFrame

\* scrape_post_with_comments: the first request is answered with 429:
\* record_429_error, handle_rate_limit_intelligently (which refreshes the
\* session when that is needed), then the retry
scrape_with_comments_rate_limited ==
    /\ item_path = "with_comments"
    /\ item_pc = "request"
    /\ ItemRequest("429")
    /\ total_requests' = total_requests + 1
    /\ consecutive_429s' = consecutive_429s + 1
    /\ success_streak' = 0
    /\ last_429_time' = now
    /\ current_delay' = BackoffDelay(consecutive_429s + 1, current_delay)
    /\ IF EntersCooldown(consecutive_429s + 1) /\ ~cooldown_mode
       THEN /\ cooldown_mode' = TRUE
            /\ cooldown_start_time' = now
       ELSE UNCHANGED <<cooldown_mode, cooldown_start_time>>
    /\ session_refresh_needed' = FALSE
    /\ delay_returned' =
        IF cooldown_mode'
        THEN NoValue
        ELSE DelayAt(now, now,
                     BackoffDelay(consecutive_429s + 1, current_delay))
    /\ item_pc' = "retry"
    /\ UNCHANGED successful_requests
    /\ UNCHANGED <<item_path, item_idx, item_result, item_error_count,
                   errors_at_start>>
    /\ itemFrame

\* scrape_post_with_comments: the retry is answered with 429 too: None is
\* returned, nothing is recorded
scrape_with_comments_still_limited ==
    /\ item_path = "with_comments"
    /\ item_pc = "retry"
    /\ ItemRequest("429")
    /\ ItemReturns("skipped", item_error_count)
    /\ UNCHANGED <<rateVars, delay_returned>>
    /\ itemFrame

\* scrape_post_with_comments: the request, or the retry, raises (timeout,
\* connection error): error_count += 1 and None
scrape_with_comments_failed ==
    /\ item_path = "with_comments"
    /\ \E answer \in TransportErrors : ItemRequest(answer)
    /\ ItemReturns("skipped", item_error_count + 1)
    /\ UNCHANGED <<rateVars, delay_returned>>
    /\ itemFrame

\* scrape_post_with_comments: the request, or the retry, is answered with
\* an error status other than 429: record_success has been called when
\* raise_for_status raises, then error_count += 1 and None
scrape_with_comments_bad_status ==
    /\ item_path = "with_comments"
    /\ ItemRequest("status")
    /\ CountsSuccess
    /\ delay_returned' = NoValue
    /\ ItemReturns("skipped", item_error_count + 1)
    /\ itemFrame

\* fetch_json: the single request is answered with the post
fetch_json_ok ==
    /\ item_path = "fetch_json"
    /\ item_pc = "request"
    /\ ItemRequest("ok")
    /\ ItemReturns("post", item_error_count)
    /\ UNCHANGED <<rateVars, delay_returned>>
    /\ itemFrame

\* fetch_json: the request times out, is answered with 429 or another
\* error status, or fails in transport: fetch_json raises at once,
\* scrape_post turns the exception into an error result, and process_post
\* returns None for it without touching error_count (scraper.py:162-164)
fetch_json_failed ==
    /\ item_path = "fetch_json"
    /\ item_pc = "request"
    /\ \E answer \in TransportErrors \cup {"429", "status"} :
            ItemRequest(answer)
    /\ ItemReturns("skipped", item_error_count)
    /\ UNCHANGED <<rateVars, delay_returned>>
    /\ itemFrame

\* the caller goes on with the next item
item_next ==
    /\ item_pc = "done"
    /\ item_idx < MaxItems
    /\ item_idx' = item_idx + 1
    /\ item_answers' = <<>>
    /\ item_result' = "none"
    /\ errors_at_start' = item_error_count
    /\ item_pc' = "request"
    /\ UNCHANGED <<item_path, item_error_count>>
    /\ UNCHANGED <<rateVars, delay_returned>>
    /\ itemFrame

NextItem ==
    \/ scrape_with_comments_ok
    \/ scrape_with_comments_rate_limited
    \/ scrape_with_comments_still_limited
    \/ scrape_with_comments_failed
    \/ scrape_with_comments_bad_status
    \/ fetch_json_ok
    \/ fetch_json_failed
    \/ item_next

----------------------------------------------------------------------------
\* EnhancedUofTScraper.save_to_database (enhanced_scraper.py:1322-1361)

\* the largest max_retries argument tried; the default is 3
MaxRetries == 4

default_max_retries == 3

\* what the body of the try block ends in: building db_record raised
\* (a missing key, a created_utc that is no number), save_post raised an
\* exception whose text names a duplicate key or another one, or save_post
\* returned (the next statement, "if result.data", reads a name that is
\* bound nowhere and raises NameError)
AttemptEnds == {"bad_record", "duplicate", "raised", "returned"}

SaveIdle ==
    /\ save_max_retries = 1
    /\ save_attempts = <<>>
    /\ save_waits = <<>>
    /\ save_returned = "none"
    /\ save_pc = "idle"

SaveInit ==
    /\ save_max_retries \in 1..MaxRetries
    /\ save_attempts = <<>>
    /\ save_waits = <<>>
    /\ save_returned = "none"
    /\ save_pc = "attempt"

saveFrame ==
    UNCHANGED <<rateVars, clockVars, dedupVars, orchVars, fetchVars, runVars,
                pageVars, parseVars, searchVars, itemVars, listVars,
                storeVars>>

\* the except branch for an exception that names no duplicate key: sleep
\* (attempt + 1) * 2 and go on when attempts are left, return False
\* otherwise; attempt is the 0-based number of the attempt that failed
AttemptFails(attempt) ==
    IF attempt < save_max_retries - 1
    THEN /\ save_waits' = Append(save_waits, (attempt + 1) * 2)
         /\ save_pc' = "attempt"
         /\ UNCHANGED save_returned
    ELSE /\ save_returned' = "False"
         /\ save_pc' = "done"
         /\ UNCHANGED save_waits

\* an attempt in which save_post returns: "if result.data" raises NameError
\* into the except branch
save_attempt_returned ==
    /\ save_pc = "attempt"
    /\ save_attempts' = Append(save_attempts, "returned")
    /\ AttemptFails(Len(save_attempts))
    /\ UNCHANGED save_max_retries
    /\ saveFrame

\* an attempt that raises an exception naming a duplicate key: return True
save_attempt_duplicate ==
    /\ save_pc = "attempt"
    /\ save_attempts' = Append(save_attempts, "duplicate")
    /\ save_returned' = "True"
    /\ save_pc' = "done"
    /\ UNCHANGED <<save_max_retries, save_waits>>
    /\ saveFrame

\* an attempt in which save_post raises another exception
save_attempt_raised ==
    /\ save_pc = "attempt"
    /\ save_attempts' = Append(save_attempts, "raised")
    /\ AttemptFails(Len(save_attempts))
    /\ UNCHANGED save_max_retries
    /\ saveFrame

\* an attempt in which building db_record raises
save_attempt_bad_record ==
    /\ save_pc = "attempt"
    /\ save_attempts' = Append(save_attempts, "bad_record")
    /\ AttemptFails(Len(save_attempts))
    /\ UNCHANGED save_max_retries
    /\ saveFrame

NextSave ==
    \/ save_attempt_returned
    \/ save_attempt_duplicate
    \/ save_attempt_raised
    \/ save_attempt_bad_record

----------------------------------------------------------------------------
\* EnhancedUofTScraper.get_all_posts_paginated (enhanced_scraper.py:364-441)
\* with get_posts_backup (443-477).  A page is the list data.children: an
\* item is TRUE when it is well-formed and FALSE when it lacks 'data', 'id'
\* or 'permalink'.  The k-th item the listing hands out has id k, and so has
\* the k-th item of a backup page.

MaxListTarget == 3
MaxPageItems == 2
MaxListRequests == 3

\* the backup_urls of get_posts_backup
BackupUrlCount == 2

Pages == UNION {[1..n -> BOOLEAN] : n \in 0..MaxPageItems}

NoData == [items |-> <<>>, cursor |-> FALSE]

\* the position of the first malformed item of a page, Len + 1 if none
RECURSIVE FirstMalformed(_, _)
FirstMalformed(items, k) ==
    IF k > Len(items) \/ ~items[k] THEN k ELSE FirstMalformed(items, k + 1)

\* the candidates of the well-formed items among the first n of a page
\* whose first item is the one after item number base of the listing
RECURSIVE WellFormed(_, _, _)
WellFormed(items, base, n) ==
    IF n = 0 THEN <<>>
    ELSE WellFormed(items, base, n - 1) \o
           (IF items[n] THEN <<Cand(base + n)>> ELSE <<>>)

ListIdle ==
    /\ list_max_posts = 1
    /\ list_post_urls = <<>>
    /\ list_after = FALSE
    /\ list_page = 1
    /\ list_requests = 0
    /\ list_offered = 0
    /\ list_received = <<>>
    /\ list_data = NoData
    /\ list_blocked = FALSE
    /\ list_backup_idx = 1
    /\ list_returned = <<>>
    /\ list_pc = "idle"

ListInit ==
    /\ list_max_posts \in 1..MaxListTarget
    /\ list_post_urls = <<>>
    /\ list_after = FALSE
    /\ list_page = 1
    /\ list_requests = 0
    /\ list_offered = 0
    /\ list_received = <<>>
    /\ list_data = NoData
    /\ list_blocked = FALSE
    /\ list_backup_idx = 1
    /\ list_returned = <<>>
    /\ list_pc = "loop"

listFrame ==
    UNCHANGED <<dedupVars, orchVars, fetchVars, runVars, pageVars, parseVars,
                searchVars, itemVars, saveVars, storeVars, now>>

\* a page request is sent: the loop condition holds and get_delay has been
\* read
ListRequest ==
    /\ list_pc = "loop"
    /\ Len(list_post_urls) < list_max_posts
    /\ list_requests < MaxListRequests
    /\ list_requests' = list_requests + 1
    /\ delay_returned' = DelayAt(now, last_429_time, current_delay)

\* the function returns the list
ListReturns(posts) ==
    /\ list_returned' = posts
    /\ list_pc' = "done"

\* while len(post_urls) < max_posts fails: post_urls is returned
get_all_posts_return ==
    /\ list_pc = "loop"
    /\ Len(list_post_urls) >= list_max_posts
    /\ ListReturns(list_post_urls)
    /\ UNCHANGED <<list_max_posts, list_post_urls, list_after, list_page,
                   list_requests, list_offered, list_received, list_data,
                   list_blocked, list_backup_idx>>
    /\ UNCHANGED <<rateVars, delay_returned>>
    /\ listFrame

\* status 403: "return self.get_posts_backup(max_posts)"
get_all_posts_blocked ==
    /\ ListRequest
    /\ list_blocked' = TRUE
    /\ list_data' = NoData
    /\ list_pc' = "backup"
    /\ UNCHANGED <<list_max_posts, list_post_urls, list_after, list_page,
                   list_offered, list_received, list_backup_idx,
                   list_returned>>
    /\ UNCHANGED rateVars
    /\ listFrame

\* status 429: record_429_error, handle_rate_limit_intelligently (which
\* refreshes the session when that is needed) and continue
get_all_posts_rate_limited ==
    /\ ListRequest
    /\ total_requests' = total_requests + 1
    /\ consecutive_429s' = consecutive_429s + 1
    /\ success_streak' = 0
    /\ last_429_time' = now
    /\ current_delay' = BackoffDelay(consecutive_429s + 1, current_delay)
    /\ IF EntersCooldown(consecutive_429s + 1) /\ ~cooldown_mode
       THEN /\ cooldown_mode' = TRUE
            /\ cooldown_start_time' = now
       ELSE UNCHANGED <<cooldown_mode, cooldown_start_time>>
    /\ session_refresh_needed' = FALSE
    /\ list_data' = NoData
    /\ UNCHANGED successful_requests
    /\ UNCHANGED <<list_max_posts, list_post_urls, list_after, list_page,
                   list_offered, list_received, list_blocked,
                   list_backup_idx, list_returned, list_pc>>
    /\ listFrame

\* a page arrives: record_success, then the items are appended up to
\* max_posts.  A malformed item that the loop reaches raises KeyError or
\* TypeError into "except Exception", which breaks the while loop; an empty
\* page and a page without a cursor end the loop too.
get_all_posts_page ==
    /\ ListRequest
    /\ CountsSuccess
    /\ \E items \in Pages, cursor \in BOOLEAN :
        LET room == list_max_posts - Len(list_post_urls)
            bad == FirstMalformed(items, 1)
            raised == bad <= Len(items) /\ bad <= room
            taken == IF raised THEN bad - 1 ELSE Min(Len(items), room)
            urls == list_post_urls \o
                      [k \in 1..taken |-> Cand(list_offered + k)]
        IN /\ list_data' = [items |-> items, cursor |-> cursor]
           /\ list_offered' = list_offered + Len(items)
           /\ list_received' = list_received \o
                                 WellFormed(items, list_offered, Len(items))
           /\ list_post_urls' = urls
           /\ IF Len(items) = 0 \/ raised
              THEN /\ ListReturns(urls)
                   /\ UNCHANGED <<list_after, list_page>>
              ELSE /\ list_after' = cursor
                   /\ IF cursor
                      THEN /\ list_page' = list_page + 1
                           /\ UNCHANGED <<list_returned, list_pc>>
                      ELSE /\ ListReturns(urls)
                           /\ UNCHANGED list_page
    /\ UNCHANGED <<list_max_posts, list_blocked, list_backup_idx>>
    /\ listFrame

\* an error status other than 403 and 429: record_success has been called
\* when raise_for_status raises into "except Exception: break"
get_all_posts_http_error ==
    /\ ListRequest
    /\ CountsSuccess
    /\ list_data' = NoData
    /\ ListReturns(list_post_urls)
    /\ UNCHANGED <<list_max_posts, list_post_urls, list_after, list_page,
                   list_offered, list_received, list_blocked,
                   list_backup_idx>>
    /\ listFrame

\* the request raises (timeout, connection error): break
get_all_posts_error ==
    /\ ListRequest
    /\ list_data' = NoData
    /\ ListReturns(list_post_urls)
    /\ UNCHANGED <<list_max_posts, list_post_urls, list_after, list_page,
                   list_offered, list_received, list_blocked,
                   list_backup_idx>>
    /\ UNCHANGED rateVars
    /\ listFrame

\* get_posts_backup: the backup URL in turn answers with status 200 and a
\* page whose first max_posts items are well-formed and at least one: they
\* are returned
get_posts_backup_found ==
    /\ list_pc = "backup"
    /\ list_backup_idx <= BackupUrlCount
    /\ \E items \in Pages :
        LET taken == Min(Len(items), list_max_posts)
        IN /\ taken > 0
           /\ FirstMalformed(items, 1) > taken
           /\ list_data' = [items |-> items, cursor |-> FALSE]
           /\ ListReturns([k \in 1..taken |-> Cand(k)])
    /\ UNCHANGED <<list_max_posts, list_post_urls, list_after, list_page,
                   list_requests, list_offered, list_received, list_blocked,
                   list_backup_idx>>
    /\ UNCHANGED <<rateVars, delay_returned>>
    /\ listFrame

\* get_posts_backup: the backup URL in turn yields nothing (another status,
\* an exception, an empty page, a malformed item among the first
\* max_posts): the next URL is tried
get_posts_backup_next ==
    /\ list_pc = "backup"
    /\ list_backup_idx <= BackupUrlCount
    /\ list_backup_idx' = list_backup_idx + 1
    /\ list_data' = NoData
    /\ UNCHANGED <<list_max_posts, list_post_urls, list_after, list_page,
                   list_requests, list_offered, list_received, list_blocked,
                   list_returned, list_pc>>
    /\ UNCHANGED <<rateVars, delay_returned>>
    /\ listFrame

\* get_posts_backup: every backup URL has been tried: "return []"
get_posts_backup_empty ==
    /\ list_pc = "backup"
    /\ list_backup_idx > BackupUrlCount
    /\ ListReturns(<<>>)
    /\ UNCHANGED <<list_max_posts, list_post_urls, list_after, list_page,
                   list_requests, list_offered, list_received, list_data,
                   list_blocked, list_backup_idx>>
    /\ UNCHANGED <<rateVars, delay_returned>>
    /\ listFrame

NextList ==
    \/ get_all_posts_return
    \/ get_all_posts_blocked
    \/ get_all_posts_rate_limited
    \/ get_all_posts_page
    \/ get_all_posts_http_error
    \/ get_all_posts_error
    \/ get_posts_backup_found
    \/ get_posts_backup_next
    \/ get_posts_backup_empty

----------------------------------------------------------------------------
\* LocalDataManager.save_post (local_storage.py:56-74) called by the pool
\* threads of RedditScraper.scrape (scraper.py:157).  The function takes no
\* lock, so the threads interleave between the test of existing_ids, the
\* writes of the files and existing_ids.add.

MaxCallers == 2
MaxStoreId == 2
MaxCalls == 2

Callers == 1..MaxCallers

\* post_data.get('id') of a post without an id
NoId == 0

StoreIds == 1..MaxStoreId

NoCall == [id |-> NoId, pc |-> "idle"]

StoreIdle ==
    /\ stored_ids = {}
    /\ csv_rows = [id \in StoreIds |-> 0]
    /\ store_call = [c \in Callers |-> NoCall]
    /\ calls_made = [c \in Callers |-> MaxCalls]
    /\ returned_true = [id \in StoreIds |-> 0]

StoreInit ==
    /\ stored_ids = {}
    /\ csv_rows = [id \in StoreIds |-> 0]
    /\ store_call = [c \in Callers |-> NoCall]
    /\ calls_made = [c \in Callers |-> 0]
    /\ returned_true = [id \in StoreIds |-> 0]

storeFrame ==
    UNCHANGED <<rateVars, clockVars, dedupVars, orchVars, fetchVars, runVars,
                pageVars, parseVars, searchVars, itemVars, saveVars,
                listVars>>

\* the call of thread c returns
CallReturns(c) ==
    /\ store_call' = [store_call EXCEPT ![c] = NoCall]
    /\ calls_made' = [calls_made EXCEPT ![c] = calls_made[c] + 1]

\* thread c calls save_post with a post that has no id: False
save_post_no_id ==
    /\ \E c \in Callers :
        /\ store_call[c].pc = "idle"
        /\ calls_made[c] < MaxCalls
        /\ CallReturns(c)
    /\ UNCHANGED <<stored_ids, csv_rows, returned_true>>
    /\ storeFrame

\* thread c calls save_post with a post that has an id
save_post_call ==
    /\ \E c \in Callers, id \in StoreIds :
        /\ store_call[c].pc = "idle"
        /\ calls_made[c] < MaxCalls
        /\ store_call' = [store_call EXCEPT ![c] = [id |-> id, pc |-> "test"]]
    /\ UNCHANGED <<stored_ids, csv_rows, calls_made, returned_true>>
    /\ storeFrame

\* "if post_id in self.existing_ids: return False"
save_post_test ==
    /\ \E c \in Callers :
        /\ store_call[c].pc = "test"
        /\ IF store_call[c].id \in stored_ids
           THEN CallReturns(c)
           ELSE /\ store_call' = [store_call EXCEPT ![c].pc = "write"]
                /\ UNCHANGED calls_made
    /\ UNCHANGED <<stored_ids, csv_rows, returned_true>>
    /\ storeFrame

\* the JSON file of the post is written and a row is appended to posts.csv
save_post_write ==
    /\ \E c \in Callers :
        /\ store_call[c].pc = "write"
        /\ csv_rows' = [csv_rows EXCEPT ![store_call[c].id] = @ + 1]
        /\ store_call' = [store_call EXCEPT ![c].pc = "add"]
    /\ UNCHANGED <<stored_ids, calls_made, returned_true>>
    /\ storeFrame

\* "self.existing_ids.add(post_id)" and "return True"
save_post_add ==
    /\ \E c \in Callers :
        /\ store_call[c].pc = "add"
        /\ stored_ids' = stored_ids \cup {store_call[c].id}
        /\ returned_true' =
            [returned_true EXCEPT ![store_call[c].id] = @ + 1]
        /\ CallReturns(c)
    /\ UNCHANGED csv_rows
    /\ storeFrame

NextStore ==
    \/ save_post_no_id
    \/ save_post_call
    \/ save_post_test
    \/ save_post_write
    \/ save_post_add

LastIdle == SaveIdle /\ ListIdle /\ StoreIdle

MoreIdle == SearchIdle /\ ItemIdle /\ LastIdle

----------------------------------------------------------------------------
\* values of the later components' variables while another is exercised
RestIdle == RunIdle /\ PageIdle /\ ParseIdle /\ MoreIdle

----------------------------------------------------------------------------
\* Specifications: one per component, the other components at rest

Init == RateInit /\ DedupIdle /\ OrchIdle /\ FetchIdle /\ RestIdle

Next ==
    \/ record_success
    \/ record_429_error
    \/ record_other_error
    \/ get_delay
    \/ mark_session_refreshed
    \/ Tick

Spec == Init /\ [][Next]_vars

\* The controller driven by record_success and record_429_error only
NextNoOtherError ==
    \/ record_success
    \/ record_429_error
    \/ get_delay
    \/ mark_session_refreshed
    \/ Tick

SpecNoOtherError == Init /\ [][NextNoOtherError]_vars

InitDedup == RateInit /\ DedupInit /\ OrchIdle /\ FetchIdle /\ RestIdle

SpecDedup == InitDedup /\ [][NextDedup]_vars

InitOrch == RateInit /\ DedupIdle /\ OrchInit /\ FetchIdle /\ RestIdle

SpecOrch == InitOrch /\ [][NextOrch]_vars

InitOrchLong ==
    /\ RateInit /\ DedupIdle /\ FetchIdle /\ RestIdle
    /\ OrchStart(LongRemoteLists)

SpecOrchLong == InitOrchLong /\ [][NextOrch]_vars

\* the store is empty after the dedup filter of a fresh session
InitFetch ==
    /\ RateInit
    /\ post_urls_with_ids = <<>>
    /\ existing_ids = {}
    /\ batch_size = 1
    /\ new_posts = <<>>
    /\ dedup_pc = "idle"
    /\ OrchIdle
    /\ FetchInit
    /\ RestIdle

SpecFetch == InitFetch /\ [][NextFetch]_vars

\* the run in which a call of a task may never return
NextFetchHang ==
    \/ NextFetch
    \/ process_post_hangs

\* every thread that can take a step is scheduled eventually
SpecFetchHang ==
    InitFetch /\ [][NextFetchHang]_vars /\ WF_vars(NextFetchHang)

\* the run with a progress_callback that may raise
NextFetchCallback ==
    \/ NextFetch
    \/ collect_callback_raised
    \/ executor_shutdown_raising

SpecFetchCallback == InitFetch /\ [][NextFetchCallback]_vars

InitPool ==
    /\ RateInit
    /\ post_urls_with_ids = <<>>
    /\ existing_ids = {}
    /\ batch_size = 1
    /\ new_posts = <<>>
    /\ dedup_pc = "idle"
    /\ OrchIdle
    /\ PoolInit
    /\ RestIdle

SpecPool == InitPool /\ [][NextPool]_vars

InitParse ==
    /\ RateInit /\ DedupIdle /\ OrchIdle /\ FetchIdle
    /\ RunIdle /\ PageIdle /\ ParseInit /\ MoreIdle

InitSearch ==
    /\ RateInit /\ DedupIdle /\ OrchIdle /\ FetchIdle
    /\ RunIdle /\ PageIdle /\ ParseIdle /\ SearchInit /\ ItemIdle
    /\ LastIdle

SpecSearch == InitSearch /\ [][NextSearch]_vars

InitItem ==
    /\ RateInit /\ DedupIdle /\ OrchIdle /\ FetchIdle
    /\ RunIdle /\ PageIdle /\ ParseIdle /\ SearchIdle /\ ItemInit
    /\ LastIdle

SpecItem == InitItem /\ [][NextItem]_vars

\* the state in which every component but the last ones is at rest
EarlierIdle ==
    /\ RateInit /\ DedupIdle /\ OrchIdle /\ FetchIdle
    /\ RunIdle /\ PageIdle /\ ParseIdle /\ SearchIdle /\ ItemIdle

InitSave == EarlierIdle /\ SaveInit /\ ListIdle /\ StoreIdle

InitList == EarlierIdle /\ SaveIdle /\ ListInit /\ StoreIdle

InitStore == EarlierIdle /\ SaveIdle /\ ListIdle /\ StoreInit

SpecStore == InitStore /\ [][NextStore]_vars

SpecList == InitList /\ [][NextList]_vars

SpecSave == InitSave /\ [][NextSave]_vars

SpecParse == InitParse /\ [][NextParse]_vars

InitRun ==
    /\ RateInit /\ DedupIdle /\ OrchIdle /\ FetchIdle
    /\ RunInit /\ PageIdle /\ ParseIdle /\ MoreIdle

InitPage ==
    /\ RateInit /\ DedupIdle /\ OrchIdle /\ FetchIdle
    /\ RunIdle /\ PageInit /\ ParseIdle /\ MoreIdle

SpecPage == InitPage /\ [][NextPage]_vars

SpecRun == InitRun /\ [][NextRun]_vars

----------------------------------------------------------------------------
\* Properties of the rate controller

\* C1: after every record_success / record_429_error call, current_delay is
\* at least min_delay and at most max_delay.
C1_DelayWithinBounds ==
    current_delay >= MinDelay /\ current_delay <= MaxDelay

\* C2: current_delay is clamped to [min_delay, max_delay] in every reachable
\* state, record_other_error calls included.
C2_DelayClamped == current_delay \in MinDelay..MaxDelay

\* C3: a record_429_error call from a clean state (no consecutive failure,
\* no cooldown) leaves cooldown false; the second consecutive call sets
\* cooldown and needs_identity_refresh.
C3_CooldownAfterTwo ==
    [][record_429_error =>
        /\ (consecutive_429s = 0 /\ ~cooldown_mode => ~cooldown_mode')
        /\ (consecutive_429s = 1 /\ ~cooldown_mode =>
                cooldown_mode' /\ session_refresh_needed')]_vars

C3_Witness ==
    /\ total_requests = 2
    /\ consecutive_429s = 2
    /\ cooldown_mode
    /\ session_refresh_needed

\* C4: in cooldown the success streak is below 3; a record_success call in
\* cooldown that brings the streak to 3 clears cooldown and
\* needs_identity_refresh, one that leaves it below 3 stays in cooldown, and
\* nothing else leaves cooldown.
C4_ThreeSuccessesExitCooldown ==
    /\ [](cooldown_mode => success_streak < 3)
    /\ [][/\ (record_success /\ cooldown_mode =>
                IF success_streak' >= 3
                THEN ~cooldown_mode' /\ ~session_refresh_needed'
                ELSE cooldown_mode')
          /\ (cooldown_mode /\ ~cooldown_mode' =>
                success_streak' = 3 /\ successful_requests' =
                                       successful_requests + 1)]_vars

C4_Witness ==
    /\ cooldown_start_time > 0
    /\ ~cooldown_mode
    /\ ~session_refresh_needed
    /\ success_streak = 3
    /\ successful_requests = 3

\* C5: get_delay returns at least twice current_delay when a 429 was recorded
\* less than 60 seconds ago, max(min_delay, current_delay) otherwise, and
\* leaves the rate state unchanged.
C5_GetDelay ==
    [][get_delay =>
        /\ (last_429_time > 0 /\ now - last_429_time < 60 =>
                delay_returned' >= 2 * current_delay)
        /\ (~(last_429_time > 0 /\ now - last_429_time < 60) =>
                delay_returned' = Max(MinDelay, current_delay))
        /\ UNCHANGED rateVars]_vars

C5_Witness ==
    /\ last_429_time > 0
    /\ now - last_429_time = TickStep
    /\ delay_returned = 2 * current_delay

\* C6: cooldown turns on only in a step that brings consecutive_429s to the
\* trigger threshold 2 or beyond, and it is off whenever success_streak has
\* reached 3.
C6_CooldownOnlyWhileTriggered ==
    /\ ~cooldown_mode
    /\ [][/\ (~cooldown_mode /\ cooldown_mode' => consecutive_429s' >= 2)
          /\ (success_streak' >= 3 => ~cooldown_mode')]_vars

C6_Witness ==
    /\ cooldown_mode
    /\ success_streak = 2
    /\ consecutive_429s = 0

----------------------------------------------------------------------------
\* Properties of the dedup filter

\* the candidates whose id the store does not hold, in their order
NotExisting(posts, store) == SelectSeq(posts, LAMBDA c : c[2] \notin store)

\* C7: both dedup filters return exactly the subsequence of the candidates
\* whose id the store's existence check does not report: every existing id
\* is excluded and the others are kept in their original order.
C7_DedupExactSubsequence ==
    dedup_pc \in {"filter_new_posts_batch", "_filter_existing_posts"} =>
        new_posts = NotExisting(post_urls_with_ids, existing_ids)

C7_Witness ==
    /\ dedup_pc = "filter_new_posts_batch"
    /\ batch_size = 2
    /\ Len(post_urls_with_ids) = 3
    /\ post_urls_with_ids[2][2] \in existing_ids
    /\ new_posts = <<post_urls_with_ids[1], post_urls_with_ids[3]>>

----------------------------------------------------------------------------
\* Properties of the orchestrator

\* no id occurs at two positions of posts
NoDuplicateIds(posts) == Cardinality(IdsOf(posts)) = Len(posts)

\* C8: the candidates the orchestrator has accumulated, and the list it
\* returns, contain no two candidates with the same id.
C8_NoDuplicateCandidates ==
    /\ NoDuplicateIds(all_post_urls)
    /\ orch_pc = "done" => NoDuplicateIds(orch_result)

C8_Witness ==
    /\ orch_pc = "done"
    /\ fetched = <<Cand(1), Cand(1)>>
    /\ Len(orch_result) >= 2
    /\ \E k \in 1..Len(orch_result) : orch_result[k] = Cand(1)

IsPrefix(p, q) == Len(p) <= Len(q) /\ p = SubSeq(q, 1, Len(p))

----------------------------------------------------------------------------
\* Properties of the fetch stage

\* C10: at most 5 fetch tasks execute process_post at the same time.
C10_AtMostFiveActive == Cardinality(Running) <= 5

C10_Witness ==
    /\ num_posts > 5
    /\ Cardinality(Running) = 5
    /\ \E t \in Tasks : future[t] = "pending"

----------------------------------------------------------------------------
\* Properties of the fetch stage followed step by step

\* C11: once scraped_count has reached max_posts, no worker starts fetching
\* another candidate (no call of scrape_post begins), under every
\* interleaving of the workers and the collecting thread.
C11_NoFetchAfterTarget ==
    [][\A t \in Tasks :
          (future[t] # "fetch" /\ future'[t] = "fetch")
              => scraped_count < scrape_max_posts]_vars

\* the tasks whose result the collecting thread has appended to scraped_posts
Collected == {scraped_posts[k] : k \in 1..Len(scraped_posts)}

\* C12: when the run is over, every post the store holds is one whose result
\* was collected and counted: a task still in flight when the target was
\* reached has left nothing in the store.
C12_InFlightDiscarded ==
    scrape_pc = "done" =>
        \A t \in Tasks : PostId(t) \in existing_ids => t \in Collected

\* C13: a fetch that fails (scrape_post returns an error result, as it does
\* for a request that timed out) adds one to error_count.
C13_FailedFetchCounted ==
    [][\A t \in Tasks :
          (future[t] = "fetch" /\ future'[t] = "none")
              => error_count' = error_count + 1]_vars

\* C15: no increment of a run-level counter is lost: each completed
\* "self.error_count += 1" of a worker leaves error_count one higher than it
\* was just before the write.
C15_NoLostIncrement ==
    [][\A t \in Tasks :
          (future[t] = "raised" /\ future'[t] = "none")
              => error_count' = error_count + 1]_vars

\* C14: a task that runs longer than the per-task timeout does not block
\* the run: whenever a task hangs, RedditScraper.scrape still terminates.
C14_HungTaskDoesNotBlock ==
    (\E t \in Tasks : future[t] = "hung") ~> (scrape_pc = "done")

\* C16: a progress callback that raises never aborts the crawl: scrape() is
\* never left by the callback's exception.
C16_CallbackNeverAborts == scrape_pc # "aborted"

----------------------------------------------------------------------------
\* Properties of run_enhanced_scraping

\* C17: at the end of run_enhanced_scraping every post counted as scraped
\* has been saved: none is left outside the store.
C17_ScrapedPostsSaved ==
    run_pc = "done" => SeqToSet(run_scraped_posts) \subseteq existing_ids

----------------------------------------------------------------------------
\* Properties of the retrieval strategies

\* C18: a strategy sends no page request once should_skip_strategy() is
\* true (five consecutive rate-limit failures).
C18_NoRequestOnceSkipAdvised ==
    [][requests' > requests => ~should_skip_strategy]_vars

\* C19: a strategy returns at most as many candidates as the quota it was
\* called with.
C19_StrategyWithinQuota ==
    orch_pc = "merge" => Len(new_urls) <= remaining

----------------------------------------------------------------------------
\* Properties of comment parsing

\* the nesting level of a node: 0 in the top listing, one more than its
\* holder's otherwise
RECURSIVE Level(_, _)
Level(data, n) ==
    IF data.node[n].parent = PostNode THEN 0
    ELSE Level(data, data.node[n].parent) + 1

\* the path of node numbers from the top listing down to n
RECURSIVE PathTo(_, _)
PathTo(data, n) ==
    IF data.node[n].parent = PostNode THEN <<n>>
    ELSE Append(PathTo(data, data.node[n].parent), n)

\* pre-order: a comment before its replies, a subtree before the subtrees
\* of the later siblings
Precedes(a, b) ==
    LET common == {k \in 1..Min(Len(a), Len(b)) :
                        \A j \in 1..k : a[j] = b[j]}
        fork == Cardinality(common) + 1
    IN IF fork > Len(a) THEN Len(b) > Len(a)
       ELSE fork <= Len(b) /\ a[fork] < b[fork]

Concrete(data) == {n \in 1..data.nodes : data.node[n].kind = "t1"}

Hidden(data) ==
    {n \in 1..data.nodes :
        data.node[n].kind = "more" /\ data.node[n].count > 0}

\* C20: parsing a reply tree returns every t1 comment exactly once, in
\* pre-order, with depth equal to its nesting level and parent_id equal to
\* the id of the enclosing comment (the post id at top level); a 'more'
\* marker yields no comment and its positive hidden count is only reported.
C20_CommentTreeFlattened ==
    (parse_pc # "start" /\ parse_pc # "idle"
        /\ comment_data.kind = "Listing") =>
        /\ Len(comments) = Cardinality(Concrete(comment_data))
        /\ {comments[k].id : k \in 1..Len(comments)} = Concrete(comment_data)
        /\ \A k \in 1..Len(comments) :
            /\ comments[k].depth = Level(comment_data, comments[k].id)
            /\ comments[k].parent_id =
                comment_data.node[comments[k].id].parent
        /\ \A j, k \in 1..Len(comments) :
            j < k => Precedes(PathTo(comment_data, comments[j].id),
                              PathTo(comment_data, comments[k].id))
        /\ Len(reported) = Cardinality(Hidden(comment_data))
        /\ {reported[k] : k \in 1..Len(reported)} =
            {[count |-> comment_data.node[n].count,
              depth |-> Level(comment_data, n)] : n \in Hidden(comment_data)}

\* a tree four levels deep with a 'more' marker at depth 2 has been parsed
C20_Witness ==
    /\ parse_pc = "parsed"
    /\ comment_data.kind = "Listing"
    /\ comment_data.nodes = 5
    /\ comment_data.node[2].parent = 1
    /\ comment_data.node[3].parent = 2
    /\ comment_data.node[4] =
        [kind |-> "more", count |-> MaxCount, parent |-> 2]
    /\ comment_data.node[5].parent = 3
    /\ Len(comments) = 4
    /\ comments[4].depth = 3
    /\ Len(reported) = 1

----------------------------------------------------------------------------
\* Properties of the orchestrator's stopping rules

\* the strategies of the profile that have completed
StrategiesRun == Len(strategy_results)

StoppedEarly == StrategiesRun < Len(Strategies(strategy_type))

C23_EarlyStopAboveFloor ==
    (orch_pc \in {"finish", "done"} /\ StoppedEarly) =>
        Len(all_post_urls) >= max_posts * 2

\* the orchestrator returned after a saturation stop with strategies left
C23_Witness ==
    /\ orch_pc = "done"
    /\ StoppedEarly
    /\ StrategiesRun >= 4
    /\ Len(all_post_urls) >= max_posts * 2
    /\ Len(all_post_urls) < max_posts * 3

\* C24: the list returned has at most twice the target of candidates: the
\* first target x 2 of the accumulated list, in its order, when that is
\* longer, and the accumulated list itself otherwise.
C24_ReturnTruncated ==
    orch_pc = "done" =>
        /\ Len(orch_result) <= max_posts * 2
        /\ orch_result =
            IF Len(all_post_urls) > max_posts * 2
            THEN [k \in 1..(max_posts * 2) |-> all_post_urls[k]]
            ELSE all_post_urls

\* more than twice the target was accumulated and the list was returned
C24_Witness ==
    /\ orch_pc = "done"
    /\ Len(all_post_urls) > max_posts * 2
    /\ Len(orch_result) = max_posts * 2

----------------------------------------------------------------------------
\* Properties of rate-limit handling in the strategies

\* C25: a page answered with 429 is requested once more and no further: when
\* the retry is rate-limited too, the page is abandoned.  In fetch_posts
\* consecutive_429s counts the 429 responses since the last answered
\* request, all for the page in hand (only an answered request advances
\* the page), so after the second of them the loop is left or the page
\* changes.
C25_RateLimitedPageRetriedOnce ==
    [][(requests' > requests /\ consecutive_429s' >= 2) =>
            (page' # page \/ page_pc' # "loop")]_vars

\* C26: in keyword search no keyword adds more candidates to the result
\* than the quota max(1, max_candidates / keyword_count).
C26_KeywordWithinQuota ==
    keyword_new <= Max(1, search_max_posts \div KeywordCount)

\* C27: a cooldown episode never ends with the session refresh it asked
\* for still outstanding: when cooldown is left, the refresh flag raised on
\* entry has been consumed by a refresh.
C27_CooldownRefreshes ==
    [][(cooldown_mode /\ ~cooldown_mode') => ~session_refresh_needed]_vars

----------------------------------------------------------------------------
\* Frame properties of the rate controller

\* C28: entering cooldown is idempotent: a record_429_error call made while
\* cooldown is true leaves cooldown_start_time and the refresh flag as they
\* are, and the flag, once consumed, is raised again only by a call that
\* enters cooldown from outside it.
C28_EnterCooldownIdempotent ==
    [][/\ (record_429_error /\ cooldown_mode) =>
            /\ cooldown_mode'
            /\ cooldown_start_time' = cooldown_start_time
            /\ session_refresh_needed' = session_refresh_needed
       /\ (~session_refresh_needed /\ session_refresh_needed') =>
            (~cooldown_mode /\ cooldown_mode')]_vars

\* a rate-limit failure was recorded in cooldown, later than the entry and
\* after the refresh flag had been consumed
C28_Witness ==
    /\ cooldown_mode
    /\ ~session_refresh_needed
    /\ consecutive_429s >= 3
    /\ cooldown_start_time < last_429_time

\* C29: record_other_error adds one to total_requests, resets
\* success_streak and multiplies current_delay by 1.1; it leaves
\* consecutive_429s, cooldown_mode, the refresh flag, last_429_time and
\* successful_requests unchanged, hence also the value of
\* should_skip_strategy().
C29_OtherErrorFrame ==
    [][record_other_error =>
        /\ total_requests' = total_requests + 1
        /\ success_streak' = 0
        /\ current_delay' = (current_delay * 11) \div 10
        /\ consecutive_429s' = consecutive_429s
        /\ cooldown_mode' = cooldown_mode
        /\ session_refresh_needed' = session_refresh_needed
        /\ last_429_time' = last_429_time
        /\ successful_requests' = successful_requests
        /\ (consecutive_429s' >= SkipThreshold)
                <=> (consecutive_429s >= SkipThreshold)]_vars

\* another error was recorded after four rate-limit failures, one short of
\* the skip threshold
C29_Witness ==
    /\ consecutive_429s = SkipThreshold - 1
    /\ total_requests = SkipThreshold
    /\ successful_requests = 0
    /\ current_delay = (MaxDelay * 11) \div 10
    /\ cooldown_mode

----------------------------------------------------------------------------
\* Properties of the per-item fetch

\* C30: an item is requested at most twice, the second time only after the
\* first request was answered with 429; after a timeout or another transport
\* error no further request is made for the item, and the item is skipped
\* and counted as one error.
C30_ItemFetchRetriesOnce ==
    /\ Len(item_answers) <= 2
    /\ Len(item_answers) = 2 => item_answers[1] = "429"
    /\ \A k \in 1..Len(item_answers) :
        item_answers[k] \in TransportErrors =>
            /\ k = Len(item_answers)
            /\ item_pc = "done"
            /\ item_result = "skipped"
            /\ item_error_count = errors_at_start + 1

----------------------------------------------------------------------------
\* Properties of saving

\* C31: save_to_database makes at most max_retries attempts and sleeps 2 s,
\* 4 s, ... after the failed ones; it returns True as soon as an attempt
\* saves the post or the store reports a duplicate key, and False only after
\* the last attempt has failed.
C31_SaveRetries ==
    /\ Len(save_attempts) <= save_max_retries
    /\ \A k \in 1..Len(save_waits) : save_waits[k] = 2 * k
    /\ \A k \in 1..Len(save_attempts) :
        save_attempts[k] \in {"returned", "duplicate"} =>
            /\ k = Len(save_attempts)
            /\ save_returned = "True"
    /\ save_returned = "False" =>
        /\ Len(save_attempts) = save_max_retries
        /\ \A k \in 1..Len(save_attempts) :
            save_attempts[k] \in {"raised", "bad_record"}

----------------------------------------------------------------------------
\* Properties of the listing

\* C32: a malformed item of a listing page is skipped without raising: the
\* well-formed items of the pages received are collected in page order up to
\* max_posts, and after a page with a cursor the listing goes on unless
\* max_posts is reached.
C32_MalformedItemSkipped ==
    /\ ~list_blocked =>
        list_post_urls = Take(list_received, list_max_posts)
    /\ (list_pc = "done" /\ ~list_blocked
            /\ list_data.cursor /\ Len(list_data.items) > 0) =>
        Len(list_post_urls) >= list_max_posts

\* C34: after a 403 the listing sends no further page request, and the
\* candidates collected from the earlier pages of the call are part of what
\* is returned.
C34_BlockedKeepsCollected ==
    /\ list_blocked => list_pc # "loop"
    /\ (list_blocked /\ list_pc = "done") =>
        SeqToSet(list_post_urls) \subseteq SeqToSet(list_returned)

----------------------------------------------------------------------------
\* Properties of the failures of PaginatedStrategy.fetch_posts

\* C33: fetch_posts ends, returning what it has, once three page requests
\* in a row have timed out or three in a row have failed with an error;
\* after fewer failures in a row, with candidates collected and a cursor
\* held, it goes on.
C33_EndsAfterThreeFailures ==
    [][failed_pages'.total > failed_pages.total =>
        /\ failed_pages'.same >= 3 => page_pc' = "done"
        /\ (failed_pages'.total < 3 /\ Len(post_urls) > 0 /\ after) =>
            page_pc' = "loop"]_vars

----------------------------------------------------------------------------
\* Properties of the fallback of the external-API strategy

\* C35: when get_praw_enhanced_posts yields nothing, the strategy runs the
\* paginated listing for hot, new and top; a sort mode that yields nothing
\* or fails is followed by the next one, and what the strategy returns has
\* at most the quota of candidates, none whose id is already accumulated
\* and no id twice.
C35_FallbackKeepsContract ==
    [][orch_pc = "praw_fallback" =>
        /\ (sub_idx <= 3 /\ fetched' = fetched /\ Len(fetched) < remaining)
            => (orch_pc' = "praw_fallback" /\ sub_idx' = sub_idx + 1)
        /\ orch_pc' = "praw_fallback" \/ orch_pc' = "merge"
        /\ orch_pc' = "merge" =>
            /\ sub_idx > 3
            /\ Len(new_urls') <= remaining
            /\ IdsOf(new_urls') \cap IdsOf(all_post_urls) = {}
            /\ NoDuplicateIds(new_urls')]_vars

\* the fallback has returned candidates, after dropping repeated ones among
\* those it fetched (praw_enhanced is the first strategy of its profile, so
\* nothing is accumulated when it runs)
C35_Witness ==
    /\ orch_pc = "merge"
    /\ CurrentStrategy.name = "praw_enhanced"
    /\ sub_idx > 3
    /\ Len(new_urls) > 0
    /\ Len(fetched) > Len(new_urls)

----------------------------------------------------------------------------
\* Properties of the progress reports of RedditScraper.scrape

\* C36: progress is reported once for every completed fetch task that the
\* main thread collects: completed_count, the count reported, goes up by
\* one for each future handed to the main thread and never exceeds the
\* number of candidates submitted.
C36_ProgressOncePerTask ==
    /\ completed_count <= num_posts
    /\ completed_count = Cardinality({t \in Tasks : future[t] = "yielded"})

----------------------------------------------------------------------------
\* Properties of the store

\* C37: save_post is idempotent per post id under concurrency: an id is
\* recorded once (one row of posts.csv) and exactly one of the calls made
\* with it returns True.
C37_SaveOncePerId ==
    \A id \in StoreIds :
        /\ csv_rows[id] <= 1
        /\ returned_true[id] <= 1
        /\ id \in stored_ids => (csv_rows[id] = 1 /\ returned_true[id] = 1)

----------------------------------------------------------------------------
\* Properties of the dedup filter across batch sizes

\* C38: what filter_new_posts_batch and _filter_existing_posts return does
\* not depend on batch_size (it is what batch_size = 1 returns), and
\* filtering the result again against the same store returns it unchanged.
C38_BatchSizeIrrelevant ==
    /\ dedup_pc = "filter_new_posts_batch" =>
        /\ \A size \in 1..MaxBatch :
            FilterNewPostsBatch(post_urls_with_ids, size, existing_ids)
                = new_posts
        /\ FilterNewPostsBatch(new_posts, batch_size, existing_ids)
                = new_posts
    /\ dedup_pc = "_filter_existing_posts" =>
        /\ \A size \in 1..MaxBatch :
            FilterExistingPosts(post_urls_with_ids, size, existing_ids)
                = new_posts
        /\ FilterExistingPosts(new_posts, batch_size, existing_ids)
                = new_posts

\* a list of several batches has been filtered and part of it was dropped
C38_Witness ==
    /\ dedup_pc = "filter_new_posts_batch"
    /\ batch_size > 1
    /\ Len(post_urls_with_ids) > batch_size
    /\ Len(new_posts) > 0
    /\ Len(new_posts) < Len(post_urls_with_ids)

----------------------------------------------------------------------------
\* Properties of what the rate controller counts as a success

\* C39: a request answered with an error status (429, or another one such
\* as 500) is not recorded as a success: successful_requests stays as it
\* is, success_streak does not advance and consecutive_429s is not reset.
C39_ErrorStatusNotSuccess ==
    [][(/\ Len(item_answers') = Len(item_answers) + 1
        /\ item_answers'[Len(item_answers')] \in {"429", "status"})
       => /\ successful_requests' = successful_requests
          /\ success_streak' <= success_streak
          /\ consecutive_429s' >= consecutive_429s]_vars

----------------------------------------------------------------------------
\* Properties of the count of scraped posts

\* C40: when run_enhanced_scraping is over, its backup phase included,
\* scraped_count does not exceed max_posts.
C40_RunWithinTarget ==
    run_pc = "done" => run_scraped_count <= run_max_posts

\* the same bound for RedditScraper.scrape: when the call is over,
\* scraped_count does not exceed max_posts
ScrapeWithinTarget ==
    scrape_pc \in {"done", "aborted"} => scraped_count <= scrape_max_posts

====
